---- MODULE Spec2Model ----
(***************************************************************************)
(* A model of the metadata filtering, classification and aggregation       *)
(* pipeline of irisctl (packages analyze and common).                      *)
(*                                                                         *)
(* Go strings that are inspected character by character (tags) are         *)
(* sequences of one-character strings; strings that are only compared      *)
(* for equality (states, command names) are TLA+ strings.  Instants are    *)
(* whole seconds counted from 0001-01-01T00:00:00, the zero time.Time.     *)
(***************************************************************************)
EXTENDS Integers, Sequences, FiniteSets, TLC

VARIABLES
    cmd,              \* the cobra command that runs: "analyze", "states", "tags", ...
    verbose,          \* viper.GetBool("verbose")
    fAnalyzeTag,      \* --tag (repeatable)
    fAnalyzeTagsAnd,  \* --tags-and
    fAnalyzeState,    \* --state (repeatable, validated by validateFlags)
    fAnalyzeAfter,    \* --after
    fAnalyzeBefore,   \* --before
    measurements,     \* the result of getMeasurements: sorted by creation time
    pc,               \* position of the running command
    i,                \* index of the next element of the range loop
    totFound, totAgentFailure, totCanceled, totFinished, totOngoing,
    nResults, durationCS, durationSE, agentsPerMeas,
    measTags,         \* analyzeTags: per-tag histogram
    tagCounts,        \* analyzeTags: per tag combination histogram
    out,              \* what the command has printed so far
    fHoursChart,      \* --chart
    now,              \* analyzeHours: time.Now() as initHoursTable reads it
    sortedDates,      \* analyzeHours: the dates of the grid, newest first
    measPerHour,      \* analyzeHours: the trimmed grid
    fAnalyzeAllUsers, \* --all-users
    args,             \* the arguments of the command: at most <meas-md-file>
    fTablesMeasUUID,  \* --meas-uuid
    fAnalyzeAgents,   \* --agent (repeatable)
    catalog,          \* the rows of system.tables in ClickHouse
    lookupFails,      \* the measurement UUIDs whose ClickHouse query fails
    nAnalyzed,        \* analyzeTablesByMeasurement: n, the measurements analysed
    queries,          \* the queries sent to ClickHouse, by what they select
    nameToParse,      \* parseMeasAgentUUIDs: its argument tableName
    parseResult,      \* parseMeasAgentUUIDs: what it returns
    gcpHostnames,     \* agentDetails: the hosts to check
    whatToCheck,      \* agentDetails: its argument what
    sshResult,        \* what GcloudSSH returns for each host
    worker,           \* agentDetails: the position of each goroutine
    wg,               \* agentDetails: the counter of the WaitGroup
    allOutput,        \* agentDetails: the channel of the outputs
    allErrors,        \* agentDetails: the channel of the errors
    errors,           \* agentDetails: the errors it returns
    ranged,           \* agentDetails: the hosts whose output the loop over allOutput took
    file,             \* GetMeasurementsSorted: the batches of the metadata file
    nDecoded,         \* GetMeasurementsSorted: the batches the decoder has read
    allMeasurements,  \* GetMeasurementsSorted: the measurements gathered
    loaded,           \* GetMeasurementsSorted: what it returns
    nRuns,            \* analyze: the invocations of the command so far
    firstReport,      \* analyze: what the first invocation left and printed
    offset,           \* getMeasMdFile: the offset of the next page
    fetched,          \* getMeasMdFile: the pages requested, by offset, and what came of each
    written,          \* getMeasMdFile: the offsets of the pages in the file
    mdReturn          \* getMeasMdFile: what it returns

flags == <<verbose, fAnalyzeTag, fAnalyzeTagsAnd, fAnalyzeState, fAnalyzeAfter, fAnalyzeBefore>>
totals == <<totFound, totAgentFailure, totCanceled, totFinished, totOngoing>>
accums == <<nResults, durationCS, durationSE, agentsPerMeas>>
tagMaps == <<measTags, tagCounts>>
hoursVars == <<fHoursChart, now, sortedDates, measPerHour>>
\* The variables of the commands analyze, analyze states and analyze tags,
\* and the variables that only the other commands use.
core == <<cmd, flags, measurements, pc, i, totals, accums, tagMaps, out>>
tablesVars == <<fAnalyzeAllUsers, args, fTablesMeasUUID, fAnalyzeAgents, catalog, lookupFails,
               nAnalyzed, queries>>
parseVars == <<nameToParse, parseResult>>
fanoutVars == <<gcpHostnames, whatToCheck, sshResult, worker, wg, allOutput, allErrors, errors,
               ranged>>
loadVars == <<file, nDecoded, allMeasurements, loaded>>
rerunVars == <<nRuns, firstReport>>
mdVars == <<offset, fetched, written, mdReturn>>
ext == <<hoursVars, tablesVars, parseVars, fanoutVars, loadVars, rerunVars, mdVars>>
\* The variables of the commands other than analyze hours, and other than
\* analyze tables.
exceptHours == <<tablesVars, parseVars, fanoutVars, loadVars, rerunVars, mdVars>>
exceptTables == <<hoursVars, parseVars, fanoutVars, loadVars, rerunVars, mdVars>>
exceptParse == <<hoursVars, tablesVars, fanoutVars, loadVars, rerunVars, mdVars>>
exceptFanout == <<hoursVars, tablesVars, parseVars, loadVars, rerunVars, mdVars>>
exceptLoad == <<hoursVars, tablesVars, parseVars, fanoutVars, rerunVars, mdVars>>
exceptRerun == <<hoursVars, tablesVars, parseVars, fanoutVars, loadVars, mdVars>>
exceptMd == <<hoursVars, tablesVars, parseVars, fanoutVars, loadVars, rerunVars>>
vars == <<core, ext>>

---------------------------------------------------------------------------
(* Strings.                                                                *)

\* The bytes the model's strings are made of, in increasing byte value.
AsciiOrder ==
    <<"\n", "\r", " ", ",", "-", ".",
      "0", "1", "2", "3", "4", "5", "6", "7", "8", "9", ":", "<", ">",
      "A", "B", "C", "D", "E", "F", "G", "H", "I", "J", "K", "L", "M",
      "N", "O", "P", "Q", "R", "S", "T", "U", "V", "W", "X", "Y", "Z", "_",
      "a", "b", "c", "d", "e", "f", "g", "h", "i", "j", "k", "l", "m",
      "n", "o", "p", "q", "r", "s", "t", "u", "v", "w", "x", "y", "z">>

Chars == {AsciiOrder[k] : k \in 1..Len(AsciiOrder)}

\* The rank of each byte.
OrdTable == [c \in Chars |-> CHOOSE k \in 1..Len(AsciiOrder) : AsciiOrder[k] = c]
Ord(c) == OrdTable[c]

\* unicode.ToLower on each ASCII byte: 'A'..'Z' move to 'a'..'z'.
LowerTable ==
    [c \in Chars |-> IF Ord("A") <= Ord(c) /\ Ord(c) <= Ord("Z")
                     THEN AsciiOrder[Ord(c) + (Ord("a") - Ord("A"))] ELSE c]
LowerChar(c) == LowerTable[c]

\* strings.ToLower
ToLower(s) == [k \in 1..Len(s) |-> LowerChar(s[k])]

\* strings.Contains(s, substr)
Contains(s, substr) ==
    \E k \in 0..(Len(s) - Len(substr)) : \A j \in 1..Len(substr) : s[k + j] = substr[j]

\* The < of Go strings: bytewise lexicographic.
RECURSIVE StrLess(_, _)
StrLess(a, b) ==
    IF b = <<>> THEN FALSE
    ELSE IF a = <<>> THEN TRUE
    ELSE IF a[1] # b[1] THEN Ord(a[1]) < Ord(b[1])
    ELSE StrLess(Tail(a), Tail(b))

RECURSIVE InsertSorted(_, _)
InsertSorted(s, x) ==
    IF s = <<>> THEN <<x>>
    ELSE IF StrLess(x, s[1]) THEN <<x>> \o s
    ELSE <<s[1]>> \o InsertSorted(Tail(s), x)

\* sort.Strings applied to a copy of s
RECURSIVE SortStrings(_)
SortStrings(s) ==
    IF s = <<>> THEN <<>> ELSE InsertSorted(SortStrings(Tail(s)), s[1])

\* strings.Join(elems, sep)
RECURSIVE Join(_, _)
Join(elems, sep) ==
    IF elems = <<>> THEN <<>>
    ELSE IF Len(elems) = 1 THEN elems[1]
    ELSE elems[1] \o sep \o Join(Tail(elems), sep)

---------------------------------------------------------------------------
(* Time.                                                                   *)

\* time.Hour, in seconds
Hour == 60 * 60
SecondsPerDay == 24 * Hour

\* c.Year() == 1 && c.Month() == 1 && c.Day() == 1
IsZeroDate(t) == t >= 0 /\ t < SecondsPerDay

\* time.Time.After and time.Time.Before
After(t, u) == t > u
Before(t, u) == t < u

---------------------------------------------------------------------------
(* Package common.                                                         *)

ValidStates == {"agent_failure", "canceled", "finished", "ongoing"}

\* The inner loop of MatchTag: does some tag of the measurement, lowered,
\* contain the filter tag (taken as given)?
TagFound(mTags, tag) ==
    \E k \in 1..Len(mTags) : Contains(ToLower(mTags[k]), tag)

\* The mutation of MatchTag that returns true, not found, after the loop.
RECURSIVE MatchTagLoopTrue(_, _, _, _)
MatchTagLoopTrue(mTags, tags, tagsAnd, k) ==
    IF k > Len(tags) THEN TRUE
    ELSE LET found == TagFound(mTags, tags[k]) IN
         IF found /\ ~tagsAnd THEN TRUE
         ELSE IF ~found /\ tagsAnd THEN FALSE
         ELSE MatchTagLoopTrue(mTags, tags, tagsAnd, k + 1)

MatchTagReturnsTrue(mTags, tags, tagsAnd) == MatchTagLoopTrue(mTags, tags, tagsAnd, 1)

\* The outer loop of MatchTag from its k-th filter tag on; found is the
\* value the previous iteration left.
RECURSIVE MatchTagLoop(_, _, _, _, _)
MatchTagLoop(mTags, tags, tagsAnd, k, found) ==
    IF k > Len(tags) THEN found
    ELSE LET f == TagFound(mTags, tags[k]) IN
         IF f /\ ~tagsAnd THEN TRUE
         ELSE IF ~f /\ tagsAnd THEN FALSE
         ELSE MatchTagLoop(mTags, tags, tagsAnd, k + 1, f)

MatchTag(mTags, tags, tagsAnd) == MatchTagLoop(mTags, tags, tagsAnd, 1, FALSE)

MatchState(mState, states) == \E k \in 1..Len(states) : states[k] = mState

---------------------------------------------------------------------------
(* Package analyze: the filter.                                            *)

\* The mutation of measSkip that lets the --after instant itself through.
measSkipAfterInclusive(measurement) ==
    \/ Len(fAnalyzeTag) > 0 /\ ~MatchTag(measurement.Tags, fAnalyzeTag, fAnalyzeTagsAnd)
    \/ Len(fAnalyzeState) > 0 /\ ~MatchState(measurement.State, fAnalyzeState)
    \/ Before(measurement.CreationTime, fAnalyzeAfter)
    \/ ~Before(measurement.CreationTime, fAnalyzeBefore)

measSkip(measurement) ==
    IF Len(fAnalyzeTag) > 0 /\ ~MatchTag(measurement.Tags, fAnalyzeTag, fAnalyzeTagsAnd)
    THEN TRUE
    ELSE IF Len(fAnalyzeState) > 0 /\ ~MatchState(measurement.State, fAnalyzeState)
    THEN TRUE
    ELSE IF \/ ~After(measurement.CreationTime, fAnalyzeAfter)
            \/ ~Before(measurement.CreationTime, fAnalyzeBefore)
    THEN TRUE
    ELSE FALSE

---------------------------------------------------------------------------
(* Package analyze: classification and counting.                           *)

DurationNone == 1
DurationTooLong == 2
DurationOK == 3

\* "zeph-gcp-daily.json" and "collection:exhaustive"
ZephGcpDailyJson ==
    <<"z", "e", "p", "h", "-", "g", "c", "p", "-", "d", "a", "i", "l", "y",
      ".", "j", "s", "o", "n">>
CollectionExhaustive ==
    <<"c", "o", "l", "l", "e", "c", "t", "i", "o", "n", ":",
      "e", "x", "h", "a", "u", "s", "t", "i", "v", "e">>

\* The tags measDuration ranges over and expectedDuration, in hours.
classTags == <<ZephGcpDailyJson, CollectionExhaustive>>
expectedDuration == <<5, 24>>

\* The mutation of measDuration that compares with >= instead of >.
measDurationInclusive(measurement) ==
    LET c == measurement.CreationTime
        s == measurement.StartTime
        e == measurement.EndTime
        none(msg) == [ret |-> DurationNone, durationCS |-> durationCS,
                      durationSE |-> durationSE,
                      printed |-> <<[line |-> "WARNING", uuid |-> measurement.UUID, unset |-> msg]>>]
    IN  IF IsZeroDate(c) THEN none("creation time")
        ELSE IF IsZeroDate(s) THEN none("start time")
        ELSE IF IsZeroDate(e) THEN none("end time")
        ELSE [ret |-> IF \E k \in 1..Len(classTags) :
                            /\ MatchTag(measurement.Tags, <<classTags[k]>>, fAnalyzeTagsAnd)
                            /\ e - s >= expectedDuration[k] * Hour
                         THEN DurationTooLong ELSE DurationOK,
              durationCS |-> Append(durationCS, s - c),
              durationSE |-> Append(durationSE, e - s),
              printed |-> <<>>]

\* The mutation of measDuration that records each sample as soon as its
\* two instants are known to be set.
measDurationAppendsEarly(measurement) ==
    LET c == measurement.CreationTime
        s == measurement.StartTime
        e == measurement.EndTime
        none(msg, cs) == [ret |-> DurationNone, durationCS |-> cs,
                          durationSE |-> durationSE,
                          printed |-> <<[line |-> "WARNING", uuid |-> measurement.UUID, unset |-> msg]>>]
    IN  IF IsZeroDate(c) THEN none("creation time", durationCS)
        ELSE IF IsZeroDate(s) THEN none("start time", durationCS)
        ELSE IF IsZeroDate(e) THEN none("end time", Append(durationCS, s - c))
        ELSE [ret |-> IF \E k \in 1..Len(classTags) :
                            /\ MatchTag(measurement.Tags, <<classTags[k]>>, fAnalyzeTagsAnd)
                            /\ e - s > expectedDuration[k] * Hour
                         THEN DurationTooLong ELSE DurationOK,
              durationCS |-> Append(durationCS, s - c),
              durationSE |-> Append(durationSE, e - s),
              printed |-> <<>>]

\* The mutation of measDuration that records no sample of the time from
\* start to end.
measDurationStartOnly(measurement) ==
    LET c == measurement.CreationTime
        s == measurement.StartTime
        e == measurement.EndTime
        none(msg) == [ret |-> DurationNone, durationCS |-> durationCS,
                      durationSE |-> durationSE,
                      printed |-> <<[line |-> "WARNING", uuid |-> measurement.UUID, unset |-> msg]>>]
    IN  IF IsZeroDate(c) THEN none("creation time")
        ELSE IF IsZeroDate(s) THEN none("start time")
        ELSE IF IsZeroDate(e) THEN none("end time")
        ELSE [ret |-> IF \E k \in 1..Len(classTags) :
                            /\ MatchTag(measurement.Tags, <<classTags[k]>>, fAnalyzeTagsAnd)
                            /\ e - s > expectedDuration[k] * Hour
                         THEN DurationTooLong ELSE DurationOK,
              durationCS |-> Append(durationCS, s - c),
              durationSE |-> durationSE,
              printed |-> <<>>]

\* measDuration: its return value, the two duration lists as it leaves
\* them, and what it prints.
measDuration(measurement) ==
    LET c == measurement.CreationTime
        s == measurement.StartTime
        e == measurement.EndTime
        none(msg) == [ret |-> DurationNone, durationCS |-> durationCS,
                      durationSE |-> durationSE,
                      printed |-> <<[line |-> "WARNING", uuid |-> measurement.UUID, unset |-> msg]>>]
    IN  IF IsZeroDate(c) THEN none("creation time")
        ELSE IF IsZeroDate(s) THEN none("start time")
        ELSE IF IsZeroDate(e) THEN none("end time")
        ELSE [ret |-> IF \E k \in 1..Len(classTags) :
                            /\ MatchTag(measurement.Tags, <<classTags[k]>>, fAnalyzeTagsAnd)
                            /\ e - s > expectedDuration[k] * Hour
                         THEN DurationTooLong ELSE DurationOK,
              durationCS |-> Append(durationCS, s - c),
              durationSE |-> Append(durationSE, e - s),
              printed |-> <<>>]

\* The mutation of measState whose default case does nothing.
measStateIgnoresUnknown(state) ==
    [fatal |-> FALSE,
     totAgentFailure |-> totAgentFailure + (IF state = "agent_failure" THEN 1 ELSE 0),
     totCanceled |-> totCanceled + (IF state = "canceled" THEN 1 ELSE 0),
     totFinished |-> totFinished + (IF state = "finished" THEN 1 ELSE 0),
     totOngoing |-> totOngoing + (IF state = "ongoing" THEN 1 ELSE 0)]

\* measState: the four counters as it leaves them, and whether it called fatal.
measState(state) ==
    [fatal |-> state \notin {"agent_failure", "canceled", "finished", "ongoing"},
     totAgentFailure |-> totAgentFailure + (IF state = "agent_failure" THEN 1 ELSE 0),
     totCanceled |-> totCanceled + (IF state = "canceled" THEN 1 ELSE 0),
     totFinished |-> totFinished + (IF state = "finished" THEN 1 ELSE 0),
     totOngoing |-> totOngoing + (IF state = "ongoing" THEN 1 ELSE 0)]

\* m[k]++ on a Go map
MapInc(m, k) ==
    IF k \in DOMAIN m THEN [m EXCEPT ![k] = @ + 1]
    ELSE [x \in DOMAIN m \cup {k} |-> IF x = k THEN 1 ELSE m[x]]

\* measAgents that keeps no entry for a measurement without agents.
measAgentsWithoutZero(agents) ==
    [ret |-> Len(agents),
     nResults |-> nResults + Len(agents),
     agentsPerMeas |-> IF Len(agents) = 0 THEN agentsPerMeas
                       ELSE MapInc(agentsPerMeas, Len(agents))]

measAgents(agents) ==
    [ret |-> Len(agents),
     nResults |-> nResults + Len(agents),
     agentsPerMeas |-> MapInc(agentsPerMeas, Len(agents))]

\* The map abbrState.
abbrState ==
    [state \in {"agent_failure", "canceled", "finished", "ongoing"} |->
        CASE state = "agent_failure" -> "E"
          [] state = "canceled" -> "C"
          [] state = "finished" -> "F"
          [] state = "ongoing" -> "O"]

\* printMeasDetails: the line it prints, if any, and whether it panics on
\* a state that abbrState does not hold; found is totFound as it stands at
\* the call.
printMeasDetails(measurement, issues, found) ==
    IF ~verbose /\ Len(issues) = 0 THEN [printed |-> <<>>, panic |-> FALSE]
    ELSE IF measurement.State \notin DOMAIN abbrState THEN [printed |-> <<>>, panic |-> TRUE]
    ELSE [printed |->
              <<[line |-> "MEAS", n |-> found, uuid |-> measurement.UUID,
                 agents |-> Len(measurement.Agents),
                 state |-> abbrState[measurement.State],
                 tags |-> measurement.Tags, issues |-> issues]>>,
          panic |-> FALSE]

RECURSIVE InsertInt(_, _)
InsertInt(s, x) ==
    IF s = <<>> THEN <<x>>
    ELSE IF x < s[1] THEN <<x>> \o s
    ELSE <<s[1]>> \o InsertInt(Tail(s), x)

\* sort.Float64s and sort.Ints
RECURSIVE SortInts(_)
SortInts(s) == IF s = <<>> THEN <<>> ELSE InsertInt(SortInts(Tail(s)), s[1])

\* The keys of a map with integer keys, in increasing order.
RECURSIVE SortedKeys(_)
SortedKeys(S) ==
    IF S = {} THEN <<>>
    ELSE LET lo == CHOOSE x \in S : \A y \in S : x <= y
         IN  <<lo>> \o SortedKeys(S \ {lo})

\* floats.Sum
RECURSIVE Sum(_)
Sum(x) == IF x = <<>> THEN 0 ELSE x[1] + Sum(Tail(x))

\* stat.Mean(x, nil) of whole seconds, as Duration.Round(time.Second)
\* leaves it: the nearest second, halves away from zero.
Mean(x) ==
    LET total == Sum(x)
        half(v) == (2 * v + Len(x)) \div (2 * Len(x))
    IN  IF total >= 0 THEN half(total) ELSE 0 - half(0 - total)

\* stat.Quantile(p, stat.Empirical, x, nil) for p = num / den and x sorted:
\* the first x[k] whose count k reaches p * len(x). No value between two
\* elements of x is ever returned.
Quantile(num, den, x) ==
    x[CHOOSE k \in 1..Len(x) :
          /\ den * k >= num * Len(x)
          /\ \A j \in 1..(k - 1) : den * j < num * Len(x)]

\* The line that printAnalysis prints for a sorted duration list.
DurationLine(what, x) ==
    [line |-> "DURATION", what |-> what,
     min |-> x[1], max |-> x[Len(x)], avg |-> Mean(x),
     p50 |-> Quantile(1, 2, x), p90 |-> Quantile(9, 10, x)]

\* printAnalysis: what it prints, the two duration lists as it leaves them
\* (it sorts them in place), and whether it indexes an empty list.
printAnalysis(what) ==
    IF totFound = 0
    THEN [printed |-> <<[line |-> "nothing to print"]>>,
          durationCS |-> durationCS, durationSE |-> durationSE, panic |-> FALSE]
    ELSE
    LET tagsPart ==
            IF what \in {"all", "tags"} /\ Len(fAnalyzeTag) > 0
            THEN <<[line |-> "TAGS", tags |-> fAnalyzeTag]>> ELSE <<>>
        statesPart ==
            IF what \in {"all", "states"}
            THEN <<[line |-> "STATES", total |-> totFound,
                    agent_failure |-> totAgentFailure, canceled |-> totCanceled,
                    finished |-> totFinished, ongoing |-> totOngoing]>>
            ELSE <<>>
        doDur == what \in {"all", "durations"}
        cs == IF doDur THEN SortInts(durationCS) ELSE durationCS
        se == IF doDur THEN SortInts(durationSE) ELSE durationSE
        panics == doDur /\ (cs = <<>> \/ se = <<>>)
        durPart ==
            IF doDur /\ ~panics
            THEN <<DurationLine("creation time to start time", cs),
                   DurationLine("start time to end time", se)>>
            ELSE <<>>
        keys == SortedKeys(DOMAIN agentsPerMeas)
        agentsPart ==
            IF what \in {"all", "agents"} /\ ~panics
            THEN <<[line |-> "AGENTS PER MEASUREMENT",
                    rows |-> [k \in 1..Len(keys) |-> <<keys[k], agentsPerMeas[keys[k]]>>],
                    results |-> nResults]>>
            ELSE <<>>
    IN  [printed |-> tagsPart \o statesPart \o durPart \o agentsPart,
         durationCS |-> cs, durationSE |-> se, panic |-> panics]

---------------------------------------------------------------------------
(* Package analyze: the commands.                                          *)

Fatal(msg, arg) == [line |-> "FATAL", msg |-> msg, arg |-> arg]

\* analyze: one iteration of the loop over the measurements.
AnalyzeStep ==
    /\ cmd = "analyze" /\ pc = "loop" /\ i <= Len(measurements)
    /\ LET measurement == measurements[i] IN
       IF measSkip(measurement)
       THEN /\ i' = i + 1
            /\ UNCHANGED <<pc, totals, accums, out>>
       ELSE LET d == measDuration(measurement) IN
            IF d.ret = DurationNone
            THEN /\ i' = i + 1
                 /\ out' = out \o d.printed
                 /\ durationCS' = d.durationCS
                 /\ durationSE' = d.durationSE
                 /\ UNCHANGED <<pc, totals, nResults, agentsPerMeas>>
            ELSE LET st == measState(measurement.State)
                     ag == measAgents(measurement.Agents)
                     issues == (IF d.ret = DurationTooLong THEN <<"took too long">> ELSE <<>>)
                               \o (IF ag.ret = 0 THEN <<"has no agents">> ELSE <<>>)
                 IN  /\ durationCS' = d.durationCS
                     /\ durationSE' = d.durationSE
                     /\ totFound' = totFound + 1
                     /\ totAgentFailure' = st.totAgentFailure
                     /\ totCanceled' = st.totCanceled
                     /\ totFinished' = st.totFinished
                     /\ totOngoing' = st.totOngoing
                     /\ IF st.fatal
                        THEN /\ pc' = "fatal"
                             /\ out' = Append(out \o d.printed, Fatal("unknown state: ", measurement.State))
                             /\ UNCHANGED <<i, nResults, agentsPerMeas>>
                        ELSE LET det == printMeasDetails(measurement, issues, totFound + 1) IN
                             /\ nResults' = ag.nResults
                             /\ agentsPerMeas' = ag.agentsPerMeas
                             /\ out' = out \o d.printed \o det.printed
                             /\ i' = IF det.panic THEN i ELSE i + 1
                             /\ pc' = IF det.panic THEN "panic" ELSE pc
    /\ UNCHANGED <<cmd, flags, measurements, tagMaps>>
    /\ UNCHANGED ext

\* analyze: printAnalysis("all") after the loop.
AnalyzePrint ==
    /\ cmd = "analyze" /\ pc = "loop" /\ i > Len(measurements)
    /\ LET p == printAnalysis("all") IN
       /\ out' = out \o p.printed
       /\ durationCS' = p.durationCS
       /\ durationSE' = p.durationSE
       /\ pc' = IF p.panic THEN "panic" ELSE "done"
    /\ UNCHANGED <<cmd, flags, measurements, i, totals, nResults, agentsPerMeas, tagMaps>>
    /\ UNCHANGED ext

\* analyze states: printAnalysis("states"), the first statement of analyzeStates.
StatesPrint ==
    /\ cmd = "states" /\ pc = "start"
    /\ LET p == printAnalysis("states") IN
       /\ out' = out \o p.printed
       /\ durationCS' = p.durationCS
       /\ durationSE' = p.durationSE
    /\ pc' = "loop"
    /\ UNCHANGED <<cmd, flags, measurements, i, totals, nResults, agentsPerMeas, tagMaps>>
    /\ UNCHANGED ext

\* analyze states: one iteration of the loop over the measurements.
StatesStep ==
    /\ cmd = "states" /\ pc = "loop" /\ i <= Len(measurements)
    /\ LET measurement == measurements[i] IN
       IF measSkip(measurement)
       THEN /\ i' = i + 1
            /\ UNCHANGED <<pc, totals, out>>
       ELSE LET st == measState(measurement.State) IN
            /\ totFound' = totFound + 1
            /\ totAgentFailure' = st.totAgentFailure
            /\ totCanceled' = st.totCanceled
            /\ totFinished' = st.totFinished
            /\ totOngoing' = st.totOngoing
            /\ IF st.fatal
               THEN /\ pc' = "fatal"
                    /\ out' = Append(out, Fatal("unknown state: ", measurement.State))
                    /\ i' = i
               ELSE /\ pc' = pc
                    /\ out' = out
                    /\ i' = i + 1
    /\ UNCHANGED <<cmd, flags, measurements, accums, tagMaps>>
    /\ UNCHANGED ext

\* analyze states: the loop is over and analyzeStates returns.
StatesReturn ==
    /\ cmd = "states" /\ pc = "loop" /\ i > Len(measurements)
    /\ pc' = "done"
    /\ UNCHANGED <<cmd, flags, measurements, i, totals, accums, tagMaps, out>>
    /\ UNCHANGED ext

\* "<no-tags>"
NoTags == <<"<", "n", "o", "-", "t", "a", "g", "s", ">">>
Comma == <<",">>

\* measTags after the if/else of analyzeTags has counted the tags of one
\* measurement, from its k-th tag on.
RECURSIVE CountTags(_, _, _)
CountTags(m, tags, k) ==
    IF k > Len(tags) THEN m ELSE CountTags(MapInc(m, tags[k]), tags, k + 1)

\* The key of tagCounts: the tags sorted and joined.
tagStr(tags) == Join(SortStrings(tags), Comma)

\* analyze tags: one iteration of the loop over the measurements.
TagsStep ==
    /\ cmd = "tags" /\ pc = "loop" /\ i <= Len(measurements)
    /\ LET measurement == measurements[i] IN
       IF measSkip(measurement)
       THEN UNCHANGED tagMaps
       ELSE /\ measTags' = IF Len(measurement.Tags) = 0
                           THEN MapInc(measTags, <<>>)
                           ELSE CountTags(measTags, measurement.Tags, 1)
            /\ tagCounts' = MapInc(tagCounts, tagStr(measurement.Tags))
    /\ i' = i + 1
    /\ UNCHANGED <<cmd, flags, measurements, pc, totals, accums, out>>
    /\ UNCHANGED ext

\* strings.Split(s, ",")
RECURSIVE Split(_, _)
Split(s, cur) ==
    IF s = <<>> THEN <<cur>>
    ELSE IF s[1] = "," THEN <<cur>> \o Split(Tail(s), <<>>)
    ELSE Split(Tail(s), Append(cur, s[1]))

\* The orders in which a sort by decreasing count can leave the keys S of
\* the map m, whatever order the iteration over the map produced them in.
RECURSIVE DescOrders(_, _)
DescOrders(m, S) ==
    IF S = {} THEN {<<>>}
    ELSE LET top == {x \in S : \A y \in S : m[x] >= m[y]}
         IN  UNION {{<<x>> \o t : t \in DescOrders(m, S \ {x})} : x \in top}

\* analyze tags: the two tables printed after the loop.
TagsPrint ==
    /\ cmd = "tags" /\ pc = "loop" /\ i > Len(measurements)
    /\ \E keys \in DescOrders(measTags, DOMAIN measTags),
          combos \in DescOrders(tagCounts, DOMAIN tagCounts) :
          out' = out \o
              <<[line |-> "Count Tag",
                 rows |-> [k \in 1..Len(keys) |-> <<measTags[keys[k]], keys[k]>>]],
                [line |-> "Count Tags",
                 rows |-> [k \in 1..Len(combos) |->
                              <<tagCounts[combos[k]], Split(combos[k], <<>>)>>]]>>
    /\ pc' = "done"
    /\ UNCHANGED <<cmd, flags, measurements, i, totals, accums, tagMaps>>
    /\ UNCHANGED ext

---------------------------------------------------------------------------
(* Initial states.                                                         *)

\* A common.Measurement, with the fields the commands read.
Measurement(tags, state, c, s, e, agents) ==
    [UUID |-> 0, Tags |-> tags, State |-> state,
     CreationTime |-> c, StartTime |-> s, EndTime |-> e, Agents |-> agents]

\* What GetMeasurementsSorted can return for a file holding at most n
\* measurements drawn from R: any order with non-decreasing creation times
\* (sort.Slice is not stable).  The k-th measurement gets the UUID k.
SortedMeasurements(R, n) ==
    {[k \in 1..Len(ms) |-> [ms[k] EXCEPT !.UUID = k]] :
        ms \in {x \in UNION {[1..len -> R] : len \in 0..n} :
                   \A k \in 1..(Len(x) - 1) :
                       ~Before(x[k + 1].CreationTime, x[k].CreationTime)}}

\* The state in which command c starts its work.
Start(c) ==
    /\ cmd = c
    /\ pc = IF c \in {"analyze", "tags"} THEN "loop" ELSE "start"
    /\ i = 1
    /\ totFound = 0 /\ totAgentFailure = 0 /\ totCanceled = 0
    /\ totFinished = 0 /\ totOngoing = 0
    /\ nResults = 0 /\ durationCS = <<>> /\ durationSE = <<>>
    /\ agentsPerMeas = <<>>
    /\ measTags = IF c = "tags" THEN [x \in {NoTags} |-> 0] ELSE <<>>
    /\ tagCounts = <<>>
    /\ out = <<>>

\* The variables of analyze hours while another command runs.
HoursIdle ==
    fHoursChart = FALSE /\ now = 0 /\ sortedDates = <<>> /\ measPerHour = <<>>

\* The variables of analyze tables while another command runs.
TablesIdle ==
    /\ fAnalyzeAllUsers = FALSE /\ args = <<>> /\ fTablesMeasUUID = <<>>
    /\ fAnalyzeAgents = <<>> /\ catalog = <<>> /\ lookupFails = {} /\ nAnalyzed = 0
    /\ queries = <<>>

\* The variables of parseMeasAgentUUIDs when it is not the subject.
ParseIdle == nameToParse = <<>> /\ parseResult = <<>>

\* The variables of agentDetails while it does not run.
FanoutIdle ==
    /\ gcpHostnames = <<>> /\ whatToCheck = "" /\ sshResult = <<>> /\ worker = <<>>
    /\ wg = 0 /\ allOutput = <<>> /\ allErrors = <<>> /\ errors = <<>>
    /\ ranged = <<>>

\* The variables of GetMeasurementsSorted when it is not the subject.
LoadIdle ==
    file = <<>> /\ nDecoded = 0 /\ allMeasurements = <<>> /\ loaded = <<>>

\* The variables of the second invocation of analyze when it is not the subject.
RerunIdle == nRuns = 0 /\ firstReport = <<>>

\* The variables of getMeasMdFile when it is not the subject.
MdIdle == offset = 0 /\ fetched = <<>> /\ written = <<>> /\ mdReturn = <<>>

\* The variables that the running command does not use.
ExtIdle == HoursIdle /\ TablesIdle /\ ParseIdle /\ FanoutIdle /\ LoadIdle /\ RerunIdle /\ MdIdle
IdleExceptHours == TablesIdle /\ ParseIdle /\ FanoutIdle /\ LoadIdle /\ RerunIdle /\ MdIdle
IdleExceptTables == HoursIdle /\ ParseIdle /\ FanoutIdle /\ LoadIdle /\ RerunIdle /\ MdIdle
IdleExceptParse == HoursIdle /\ TablesIdle /\ FanoutIdle /\ LoadIdle /\ RerunIdle /\ MdIdle
IdleExceptFanout == HoursIdle /\ TablesIdle /\ ParseIdle /\ LoadIdle /\ RerunIdle /\ MdIdle
IdleExceptLoad == HoursIdle /\ TablesIdle /\ ParseIdle /\ FanoutIdle /\ RerunIdle /\ MdIdle
IdleExceptRerun == HoursIdle /\ TablesIdle /\ ParseIdle /\ FanoutIdle /\ LoadIdle /\ MdIdle
IdleExceptMd == HoursIdle /\ TablesIdle /\ ParseIdle /\ FanoutIdle /\ LoadIdle /\ RerunIdle

\* Three instants a day apart, none of them on the zero date.
Instant1 == 2 * SecondsPerDay
Instant2 == 3 * SecondsPerDay
Instant3 == 4 * SecondsPerDay

\* "zeph", "Zeph", "ZEPH", "exhaustive" and "missing-substr"
Zeph == <<"z", "e", "p", "h">>
ZephCapital == <<"Z", "e", "p", "h">>
ZephUpper == <<"Z", "E", "P", "H">>
Exhaustive == <<"e", "x", "h", "a", "u", "s", "t", "i", "v", "e">>
MissingSubstr == <<"m", "i", "s", "s", "i", "n", "g", "-", "s", "u", "b", "s", "t", "r">>

---------------------------------------------------------------------------
(* analyze states over a wide range of filters.                            *)

MaxFilterMeas == 2

FilterTagLists ==
    {<<>>, <<Zeph, Exhaustive>>, <<Zeph, MissingSubstr>>,
     <<MissingSubstr, Zeph>>, <<ZephCapital>>}
FilterStateLists == {<<>>, <<"canceled", "finished">>}
FilterWindows == {<<Instant1, Instant3>>, <<Instant2, Instant3>>}

FilterMeasurements ==
    {Measurement(tags, state, c, c, c + Hour, <<"agent-1">>) :
        tags \in {<<>>, <<ZephGcpDailyJson, CollectionExhaustive>>,
                  <<CollectionExhaustive>>, <<ZephUpper>>},
        state \in {"finished", "paused"},
        c \in {Instant1, Instant2, Instant3}}

InitFilter ==
    /\ Start("states")
    /\ ExtIdle
    /\ verbose = FALSE
    /\ fAnalyzeTag \in FilterTagLists
    /\ fAnalyzeTagsAnd \in BOOLEAN
    /\ fAnalyzeState \in FilterStateLists
    /\ \E w \in FilterWindows : fAnalyzeAfter = w[1] /\ fAnalyzeBefore = w[2]
    /\ measurements \in SortedMeasurements(FilterMeasurements, MaxFilterMeas)

NextStates == StatesPrint \/ StatesStep \/ StatesReturn

SpecFilter == InitFilter /\ [][NextStates]_vars

---------------------------------------------------------------------------
(* Properties of the filter, on analyze states.                            *)

\* The measurements among the first n that satisfy P.
CountUpTo(n, P(_)) == Cardinality({k \in 1..n : P(measurements[k])})

\* The measurements whose iteration of the loop is over: all before the
\* i-th, and the i-th too when the loop stopped in it with a fatal error.
Processed == IF pc = "fatal" THEN i ELSE i - 1

StrictlyInWindow(R) ==
    R.CreationTime > fAnalyzeAfter /\ R.CreationTime < fAnalyzeBefore
StateAllowed(R) ==
    fAnalyzeState = <<>> \/ R.State \in {fAnalyzeState[k] : k \in 1..Len(fAnalyzeState)}

\* C1's predicate on a record R.
Accepts(R) ==
    /\ StrictlyInWindow(R)
    /\ StateAllowed(R)
    /\ fAnalyzeTag = <<>> \/ MatchTag(R.Tags, fAnalyzeTag, fAnalyzeTagsAnd)

Matches(f, t) == Contains(ToLower(t), f)

\* C2's rule: every filter tag (AND), or some filter tag (OR), matches
\* some tag of the record.
TagRule(mTags, tags, tagsAnd) ==
    IF tagsAnd
    THEN \A f \in 1..Len(tags) : \E t \in 1..Len(mTags) : Matches(tags[f], mTags[t])
    ELSE \E f \in 1..Len(tags) : \E t \in 1..Len(mTags) : Matches(tags[f], mTags[t])

AcceptsByTagRule(R) ==
    /\ StrictlyInWindow(R)
    /\ StateAllowed(R)
    /\ TagRule(R.Tags, fAnalyzeTag, fAnalyzeTagsAnd)

\* The example of C2.
C2_Examples ==
    LET both == <<ZephGcpDailyJson, CollectionExhaustive>> IN
    /\ MatchTag(both, <<Zeph, Exhaustive>>, TRUE)
    /\ ~MatchTag(both, <<Zeph, MissingSubstr>>, TRUE)
    /\ MatchTag(both, <<Zeph, MissingSubstr>>, FALSE)

\* C2: with a non-empty list of filter tags, MatchTag under --tags-and holds
\* iff every filter tag matches some tag of the record, and without it iff
\* some filter tag matches some tag of the record; so the measurements
\* counted are those the rule lets through.  The tags zeph-gcp-daily.json
\* and collection:exhaustive match [zeph, exhaustive] under AND, not
\* [zeph, missing-substr] under AND, and [zeph, missing-substr] under OR.
C2_TagCombination ==
    /\ (cmd = "states" /\ pc \in {"loop", "done", "fatal"} /\ fAnalyzeTag # <<>>)
          => totFound = CountUpTo(Processed, AcceptsByTagRule)
    /\ C2_Examples

\* The loop has counted a record tagged zeph-gcp-daily.json and
\* collection:exhaustive under --tag zeph --tag missing-substr, and has
\* rejected one tagged collection:exhaustive alone.
C2_Witness ==
    /\ cmd = "states" /\ pc = "done" /\ Len(measurements) = 2
    /\ fAnalyzeTag = <<Zeph, MissingSubstr>> /\ ~fAnalyzeTagsAnd
    /\ measurements[1].Tags = <<CollectionExhaustive>>
    /\ measurements[2].Tags = <<ZephGcpDailyJson, CollectionExhaustive>>
    /\ totFound = 1

\* Case-insensitive containment, as C3 states it.
MatchesIgnoringCase(f, t) == Contains(ToLower(t), ToLower(f))

AcceptsIgnoringCase(R) ==
    /\ StrictlyInWindow(R)
    /\ StateAllowed(R)
    /\ \E t \in 1..Len(R.Tags) : MatchesIgnoringCase(fAnalyzeTag[1], R.Tags[t])

\* C3: a filter tag matches a record tag iff it is a substring of it with
\* the letter case of both ignored: under a single --tag, the measurements
\* counted are those in the window and of an allowed state that carry a
\* tag containing the filter tag, case ignored.
C3_CaseInsensitive ==
    (cmd = "states" /\ pc \in {"loop", "done", "fatal"} /\ Len(fAnalyzeTag) = 1)
        => totFound = CountUpTo(Processed, AcceptsIgnoringCase)

AcceptsHalfOpen(R) ==
    /\ R.CreationTime >= fAnalyzeAfter /\ R.CreationTime < fAnalyzeBefore
    /\ StateAllowed(R)
    /\ fAnalyzeTag = <<>> \/ MatchTag(R.Tags, fAnalyzeTag, fAnalyzeTagsAnd)

\* C6: the window is half-open as the help of --after and --before says:
\* a measurement created at the --after instant is matched, one created at
\* the --before instant is not.
C6_HalfOpenWindow ==
    (cmd = "states" /\ pc \in {"loop", "done", "fatal"})
        => totFound = CountUpTo(Processed, AcceptsHalfOpen)

\* C8: analyze states reports the histogram of the records that pass the
\* filter: when it returns having counted at least one record, it has
\* printed the STATES lines with the total and the four counts it ends with.
C8_StatesReport ==
    (cmd = "states" /\ pc = "done" /\ totFound > 0)
        => \E k \in 1..Len(out) :
              /\ out[k].line = "STATES"
              /\ out[k].total = totFound
              /\ out[k].agent_failure = totAgentFailure
              /\ out[k].canceled = totCanceled
              /\ out[k].finished = totFinished
              /\ out[k].ongoing = totOngoing

---------------------------------------------------------------------------
(* analyze over records of every duration class.                           *)

MaxClassifyMeas == 2

NextAnalyze == AnalyzeStep \/ AnalyzePrint

\* Creation, start and end instants: a run of exactly 5 hours, of 5 hours
\* and a second, of exactly 24 hours, of 24 hours and a second, and one
\* with each of the three instants in turn left at the zero time.
ClassifyTimes ==
    LET c == Instant2
        s == Instant2 + 60
    IN  {<<c, s, s + 5 * Hour>>, <<c, s, s + 5 * Hour + 1>>,
         <<c, s, s + 24 * Hour>>, <<c, s, s + 24 * Hour + 1>>,
         <<0, s, s + 5 * Hour + 1>>, <<c, 0, s + 5 * Hour + 1>>, <<c, s, 0>>}

ClassifyMeasurements ==
    {Measurement(tags, "finished", t[1], t[2], t[3], <<"agent-1">>) :
        tags \in {<<>>, <<ZephGcpDailyJson>>, <<CollectionExhaustive>>,
                  <<ZephGcpDailyJson, CollectionExhaustive>>},
        t \in ClassifyTimes}

\* --after is either a day before the zero time (every record passes, the
\* one created at the zero time too) or the first instant.
InitClassify ==
    /\ Start("analyze")
    /\ ExtIdle
    /\ verbose \in BOOLEAN
    /\ fAnalyzeTag = <<>>
    /\ fAnalyzeTagsAnd \in BOOLEAN
    /\ fAnalyzeState = <<>>
    /\ fAnalyzeAfter \in {0 - SecondsPerDay, Instant1}
    /\ fAnalyzeBefore = Instant3
    /\ measurements \in SortedMeasurements(ClassifyMeasurements, MaxClassifyMeas)

SpecClassify == InitClassify /\ [][NextAnalyze]_vars

\* The three instants of R are set: none is on the zero date.
AllSet(R) ==
    ~IsZeroDate(R.CreationTime) /\ ~IsZeroDate(R.StartTime) /\ ~IsZeroDate(R.EndTime)

AcceptedAllSet(R) == Accepts(R) /\ AllSet(R)

\* R carries the class tag cls.
Carries(R, cls) == \E t \in 1..Len(R.Tags) : Contains(ToLower(R.Tags[t]), cls)

\* R carries a class tag and ran strictly longer than the ceiling of that class.
ExceedsCeiling(R) ==
    \/ Carries(R, ZephGcpDailyJson) /\ R.EndTime - R.StartTime > 5 * Hour
    \/ Carries(R, CollectionExhaustive) /\ R.EndTime - R.StartTime > 24 * Hour

\* The line analyze printed for measurement k says it took too long.
FlaggedTooLong(k) ==
    \E n \in 1..Len(out) :
        /\ out[n].line = "MEAS" /\ out[n].uuid = k
        /\ \E j \in 1..Len(out[n].issues) : out[n].issues[j] = "took too long"

\* analyze printed that it skips measurement k for an unset instant.
WarnedUnset(k) ==
    \E n \in 1..Len(out) : out[n].line = "WARNING" /\ out[n].uuid = k

Running == pc \in {"loop", "done", "fatal"}

HasSentinel(R) == R.CreationTime = 0 \/ R.StartTime = 0 \/ R.EndTime = 0

\* C5: a record whose creation, start or end time is the zero value is
\* classified Unset whatever its other fields are, and adds no sample to
\* either duration list: the lists hold one sample for each accepted record
\* with its three instants set and none for the others, which are reported
\* as skipped and are not counted.
C5_SentinelUnset ==
    (cmd = "analyze" /\ Running) =>
        /\ Len(durationCS) = CountUpTo(Processed, AcceptedAllSet)
        /\ Len(durationSE) = CountUpTo(Processed, AcceptedAllSet)
        /\ \A k \in 1..Processed :
              (Accepts(measurements[k]) /\ HasSentinel(measurements[k])) =>
                  /\ measDuration(measurements[k]).ret = DurationNone
                  /\ WarnedUnset(k)
                  /\ \A n \in 1..Len(out) : out[n].line = "MEAS" => out[n].uuid # k

\* A record with a set start and an unset end after a complete one: one
\* sample in each list.
C5_Witness ==
    /\ cmd = "analyze" /\ pc = "done" /\ Len(measurements) = 2
    /\ AllSet(measurements[1])
    /\ measurements[2].EndTime = 0 /\ measurements[2].StartTime # 0
    /\ WarnedUnset(2)
    /\ Len(durationCS) = 1 /\ Len(durationSE) = 1 /\ totFound = 1

---------------------------------------------------------------------------
(* analyze over records of known and unknown states.                       *)

MaxAnalyzeMeas == 2

AnalyzeMeasurements ==
    {Measurement(tags, state, c, s, e, agents) :
        tags \in {<<>>, <<ZephGcpDailyJson>>},
        state \in {"finished", "paused"},
        c \in {Instant1, Instant2},
        s \in {0, Instant2 + 60},
        e \in {Instant2 + 60 + 5 * Hour + 1},
        agents \in {<<>>, <<"agent-1", "agent-2">>}}

InitAnalyze ==
    /\ Start("analyze")
    /\ ExtIdle
    /\ verbose \in BOOLEAN
    /\ fAnalyzeTag = <<>>
    /\ fAnalyzeTagsAnd = FALSE
    /\ fAnalyzeState = <<>>
    /\ fAnalyzeAfter = Instant1
    /\ fAnalyzeBefore = Instant3
    /\ measurements \in SortedMeasurements(AnalyzeMeasurements, MaxAnalyzeMeas)

SpecAnalyze == InitAnalyze /\ [][NextAnalyze]_vars

---------------------------------------------------------------------------
(* analyze tags.                                                           *)

MaxTagsMeas == 2

\* "a", "b" and "a,b"
TagA == <<"a">>
TagB == <<"b">>
TagAB == <<"a", ",", "b">>

TagsMeasurements ==
    {Measurement(tags, "finished", c, c + 60, c + Hour, <<"agent-1">>) :
        tags \in {<<>>, <<TagA>>, <<TagA, TagB>>, <<TagB, TagA>>, <<TagAB>>},
        c \in {Instant1, Instant2}}

InitTags ==
    /\ Start("tags")
    /\ ExtIdle
    /\ verbose = FALSE
    /\ fAnalyzeTag = <<>>
    /\ fAnalyzeTagsAnd = FALSE
    /\ fAnalyzeState = <<>>
    /\ fAnalyzeAfter = Instant1
    /\ fAnalyzeBefore = Instant3
    /\ measurements \in SortedMeasurements(TagsMeasurements, MaxTagsMeas)

NextTags == TagsStep \/ TagsPrint

SpecTags == InitTags /\ [][NextTags]_vars

AcceptedWithoutTags(R) == Accepts(R) /\ R.Tags = <<>>

\* C9: every filtered record with no tags increments the <no-tags> bucket
\* of the per-tag histogram, so after the pass that bucket holds the number
\* of filtered records that have no tags.
C9_NoTagsBucket ==
    (cmd = "tags" /\ pc = "done") =>
        /\ NoTags \in DOMAIN measTags
        /\ measTags[NoTags] = CountUpTo(Len(measurements), AcceptedWithoutTags)

\* C10: two filtered records are counted in the same tag-combination bucket
\* iff their tag lists are equal after sorting, whatever the tags hold (a
\* comma too): the bucket of each filtered record counts the filtered
\* records whose sorted tag list is the one of that record.
C10_TagCombinationBuckets ==
    (cmd = "tags" /\ pc = "done") =>
        \A k \in 1..Len(measurements) :
            Accepts(measurements[k]) =>
                /\ tagStr(measurements[k].Tags) \in DOMAIN tagCounts
                /\ tagCounts[tagStr(measurements[k].Tags)] =
                      Cardinality({j \in 1..Len(measurements) :
                          /\ Accepts(measurements[j])
                          /\ SortStrings(measurements[j].Tags)
                                = SortStrings(measurements[k].Tags)})

---------------------------------------------------------------------------
(* Order of the rendered histograms.                                       *)

\* Rows <<count, key>> by decreasing count, equal counts by increasing key.
RowsInReportOrder(rows) ==
    \A k \in 1..(Len(rows) - 1) :
        \/ rows[k][1] > rows[k + 1][1]
        \/ /\ rows[k][1] = rows[k + 1][1]
           /\ StrLess(rows[k][2], rows[k + 1][2])

\* C11: every histogram is rendered by decreasing count, and entries with
\* equal counts in the lexical order of their keys, so that the rendered
\* order does not depend on the iteration order of the maps: the per-tag
\* table printed by analyze tags is in that order.
C11_HistogramOrder ==
    (cmd = "tags" /\ pc = "done") => RowsInReportOrder(out[1].rows)

---------------------------------------------------------------------------
(* analyze hours.  A date is the number of its day and an hour of the day  *)
(* is its number, which "%02d" turns into the matching entry of hours.     *)

\* "2006-01-02" and "2020-01-01T00:00:00.000"
DateLayout == <<"2", "0", "0", "6", "-", "0", "1", "-", "0", "2">>
FirstMeasurementDate ==
    <<"2", "0", "2", "0", "-", "0", "1", "-", "0", "1", "T",
      "0", "0", ":", "0", "0", ":", "0", "0", ".", "0", "0", "0">>

\* The instant 2020-01-01T00:00:00 on the time scale of the model.
FirstMeasurementInstant == SecondsPerDay

\* time.Parse(layout, value) for a layout of fixed-width fields, on a
\* value whose leading fields denote the instant t: text after the last
\* field of the layout is the error "extra text", and the time returned
\* with an error is the zero time.
Parse(layout, value, t) ==
    IF Len(value) # Len(layout)
    THEN [err |-> TRUE, t |-> 0]
    ELSE [err |-> FALSE, t |-> t]

hours == [h \in 1..24 |-> h - 1]

\* CreationTime.Format("2006-01-02") and CreationTime.Hour()
Date(t) == t \div SecondsPerDay
HourOf(t) == (t % SecondsPerDay) \div Hour

\* initHoursTable: the map is made anew for every hour of the date, so
\* that each date is left with the last hour only.
initHoursTable ==
    LET p == Parse(DateLayout, FirstMeasurementDate, FirstMeasurementInstant)
        days == {k \in 0..Date(now) : ~After(p.t + k * SecondsPerDay, now)}
    IN  IF p.err
        THEN [err |-> TRUE, measPerHour |-> <<>>]
        ELSE [err |-> FALSE,
              measPerHour |->
                  [d \in {Date(p.t + k * SecondsPerDay) : k \in days} |->
                      [h \in {hours[Len(hours)]} |-> 0]]]

\* analyzeHours: the counting loop from the k-th measurement on.
RECURSIVE CountHours(_, _)
CountHours(grid, k) ==
    IF k > Len(measurements) THEN [panic |-> FALSE, grid |-> grid]
    ELSE IF measSkip(measurements[k]) THEN CountHours(grid, k + 1)
    ELSE LET d == Date(measurements[k].CreationTime)
             t == HourOf(measurements[k].CreationTime)
         IN  IF d \notin DOMAIN grid
             THEN [panic |-> TRUE, grid |-> grid]
             ELSE CountHours([grid EXCEPT ![d] = MapInc(@, t)], k + 1)

\* sort.Sort(sort.Reverse(sort.StringSlice(sortedDates)))
SortedDates(grid) ==
    LET up == SortedKeys(DOMAIN grid)
    IN  [k \in 1..Len(up) |-> up[Len(up) + 1 - k]]

HasRuns(grid, date) ==
    date \in DOMAIN grid /\ \E h \in DOMAIN grid[date] : grid[date][h] # 0

\* The empty string that firstDate starts as: the date of no day.
NoDate == 0 - 1

\* analyzeHours: firstDate ends as the last date of the list with a run.
FirstDate(grid, dates) ==
    LET withRuns == {k \in 1..Len(dates) : HasRuns(grid, dates[k])}
    IN  IF withRuns = {} THEN NoDate
        ELSE dates[CHOOSE k \in withRuns : \A j \in withRuns : j <= k]

\* analyzeHours: the trimmed map, copied date by date down to firstDate.
Trim(grid, dates) ==
    LET firstDate == FirstDate(grid, dates)
        last == IF firstDate = NoDate THEN Len(dates)
                ELSE CHOOSE k \in 1..Len(dates) : dates[k] = firstDate
    IN  [d \in {dates[k] : k \in 1..last} |->
            [h \in {hours[j] : j \in 1..Len(hours)} |->
                IF h \in DOMAIN grid[d] THEN grid[d][h] ELSE 0]]

\* textChart: the header and one row for each date of the list, the dates
\* without runs only with --verbose.
RECURSIVE ChartRows(_, _, _)
ChartRows(grid, dates, k) ==
    IF k > Len(dates) THEN <<>>
    ELSE IF ~verbose /\ ~HasRuns(grid, dates[k]) THEN ChartRows(grid, dates, k + 1)
    ELSE <<[date |-> dates[k],
            cells |-> [j \in 1..Len(hours) |->
                          IF HasRuns(grid, dates[k]) /\ hours[j] \in DOMAIN grid[dates[k]]
                          THEN grid[dates[k]][hours[j]] ELSE 0]]>>
         \o ChartRows(grid, dates, k + 1)

textChart(grid, dates) == <<[line |-> "hours", rows |-> ChartRows(grid, dates, 1)]>>

\* dotChart saves the map as measurements_per_hour.svg.
dotChart(grid) == <<[line |-> "measurements_per_hour.svg", grid |-> grid]>>

\* analyze hours, from the grid of initHoursTable to the chart.
AnalyzeHours ==
    /\ cmd = "hours" /\ pc = "start"
    /\ LET table == initHoursTable IN
       IF table.err
       THEN /\ pc' = "fatal"
            /\ out' = Append(out, Fatal("failed to parse start date", FirstMeasurementDate))
            /\ UNCHANGED <<sortedDates, measPerHour>>
       ELSE LET counted == CountHours(table.measPerHour, 1) IN
            IF counted.panic
            THEN /\ pc' = "panic"
                 /\ UNCHANGED <<out, sortedDates, measPerHour>>
            ELSE /\ sortedDates' = SortedDates(counted.grid)
                 /\ measPerHour' = Trim(counted.grid, sortedDates')
                 /\ out' = out \o IF fHoursChart
                                  THEN dotChart(measPerHour')
                                  ELSE textChart(measPerHour', sortedDates')
                 /\ pc' = "done"
    /\ UNCHANGED <<cmd, flags, measurements, i, totals, accums, tagMaps>>
    /\ UNCHANGED <<fHoursChart, now, exceptHours>>

MaxHoursMeas == 2

HoursMeasurements ==
    {Measurement(<<>>, state, c, c + 60, c + Hour, <<"agent-1">>) :
        state \in {"finished", "canceled"},
        c \in {Instant1 + 3 * Hour, Instant2, Instant2 + 3 * Hour}}

InitHours ==
    /\ Start("hours")
    /\ verbose \in BOOLEAN
    /\ fAnalyzeTag = <<>>
    /\ fAnalyzeTagsAnd = FALSE
    /\ fAnalyzeState \in {<<>>, <<"finished">>}
    /\ fAnalyzeAfter = Instant1
    /\ fAnalyzeBefore = Instant3
    /\ measurements \in SortedMeasurements(HoursMeasurements, MaxHoursMeas)
    /\ fHoursChart \in BOOLEAN
    /\ now = Instant3 + 12 * Hour
    /\ sortedDates = <<>> /\ measPerHour = <<>>
    /\ IdleExceptHours

NextHours == AnalyzeHours

SpecHours == InitHours /\ [][NextHours]_vars

\* The sum of the counts of a grid over the dates S.
RECURSIVE GridSum(_, _)
GridSum(grid, S) ==
    IF S = {} THEN 0
    ELSE LET d == CHOOSE x \in S : TRUE
             RECURSIVE RowSum(_)
             RowSum(H) == IF H = {} THEN 0
                          ELSE LET h == CHOOSE x \in H : TRUE
                               IN  grid[d][h] + RowSum(H \ {h})
         IN  RowSum(DOMAIN grid[d]) + GridSum(grid, S \ {d})

\* C12: once analyze hours has run, the trimmed grid holds exactly the
\* dates from the oldest date with a filtered record to the end of the
\* range, each with its 24 hour buckets, and its counts add up to the
\* number of filtered records.
C12_TrimmedGrid ==
    (cmd = "hours" /\ pc # "start") =>
        LET kept == {k \in 1..Len(measurements) : Accepts(measurements[k])}
            days == {Date(measurements[k].CreationTime) : k \in kept}
        IN  /\ GridSum(measPerHour, DOMAIN measPerHour) = Cardinality(kept)
            /\ kept # {} =>
                  /\ DOMAIN measPerHour =
                        (CHOOSE d \in days : \A e \in days : d <= e)..Date(now)
                  /\ \A d \in DOMAIN measPerHour :
                        DOMAIN measPerHour[d] = 0..23

---------------------------------------------------------------------------
(* analyze tables: the names of the tables.                                *)

\* strings.Index(s, substr), -1 when substr is not in s
Index(s, substr) ==
    LET hits == {k \in 0..(Len(s) - Len(substr)) :
                    \A j \in 1..Len(substr) : s[k + j] = substr[j]}
    IN  IF hits = {} THEN 0 - 1
        ELSE CHOOSE k \in hits : \A j \in hits : k <= j

\* strings.ReplaceAll(s, old, new) for one-byte old and new
ReplaceAll(s, old, new) == [k \in 1..Len(s) |-> IF s[k] = old THEN new ELSE s[k]]

\* strings.HasPrefix(s, prefix)
HasPrefix(s, prefix) ==
    Len(prefix) <= Len(s) /\ \A k \in 1..Len(prefix) : s[k] = prefix[k]

\* "__"
DoubleUnderscore == <<"_", "_">>

ErrInvalidTableName == [measUUID |-> <<>>, agentUUID |-> <<>>, err |-> TRUE]

\* parseMeasAgentUUIDs with the measurement UUID left as it is in the name.
parseMeasAgentUUIDsUntranslated(tableName) ==
    LET start == Index(tableName, DoubleUnderscore) + 2
        end == Index(SubSeq(tableName, start + 1, Len(tableName)), DoubleUnderscore)
    IN  IF start = 1 \/ end = 0 - 1 THEN ErrInvalidTableName
        ELSE [measUUID |-> SubSeq(tableName, start + 1, start + end),
              agentUUID |-> SubSeq(tableName, end + start + 3, Len(tableName)),
              err |-> FALSE]

\* parseMeasAgentUUIDs: the text between the first two "__" with "_"
\* replaced by "-", and the text after the second "__" as it is.
parseMeasAgentUUIDs(tableName) ==
    LET start == Index(tableName, DoubleUnderscore)
    IN  IF start = 0 - 1 THEN ErrInvalidTableName
        ELSE LET from == start + 2
                 end == Index(SubSeq(tableName, from + 1, Len(tableName)),
                              DoubleUnderscore)
             IN  IF end = 0 - 1 THEN ErrInvalidTableName
                 ELSE [measUUID |-> ReplaceAll(SubSeq(tableName, from + 1, from + end),
                                               "_", "-"),
                       agentUUID |-> SubSeq(tableName, end + from + 3, Len(tableName)),
                       err |-> FALSE]

\* The four kinds of table that a measurement has for each of its agents.
Results == <<"r", "e", "s", "u", "l", "t", "s">>
Prefixes == <<"p", "r", "e", "f", "i", "x", "e", "s">>
Links == <<"l", "i", "n", "k", "s">>
Probes == <<"p", "r", "o", "b", "e", "s">>
TableKinds == {Results, Prefixes, Links, Probes}

\* The name Iris gives the table of a kind for a measurement and an agent.
TableName(kind, measUUID, agentUUID) ==
    kind \o DoubleUnderscore \o ReplaceAll(measUUID, "-", "_")
         \o DoubleUnderscore \o ReplaceAll(agentUUID, "-", "_")

\* A row of system.tables; the modification time is a text that
\* time.Parse accepts (valid) or not, and the instant it denotes.
MeasTable(name, valid, t, rows, bytes) ==
    [Name |-> name, ModTime |-> [valid |-> valid, t |-> t],
     Rows |-> rows, Bytes |-> bytes]

\* The error of ReadCompressedFile for an empty file.
ErrZeroLength == "zero length"

\* ReadCompressedFile without the sentinel for an empty file.
parseMeasTablesPlainError(found) ==
    IF found = <<>> THEN [err |-> "empty file", measTables |-> <<>>]
    ELSE [err |-> "", measTables |-> found]

\* ReadCompressedFile and parseMeasTables on the rows a query has written
\* to its file: an empty file is ErrZeroLength.
parseMeasTables(found) ==
    IF found = <<>> THEN [err |-> ErrZeroLength, measTables |-> <<>>]
    ELSE [err |-> "", measTables |-> found]

\* The query of getAllMeasTables, in the set of the failing queries.
AllTables == <<"*">>

RunQueryError == [err |-> "curl", measTables |-> <<>>]

\* getAllMeasTables: the tables of the four kinds, by modification time
\* (the catalog is kept in that order).
getAllMeasTables ==
    IF AllTables \in lookupFails THEN RunQueryError
    ELSE parseMeasTables(SelectSeq(catalog,
             LAMBDA t : \E kind \in TableKinds :
                            HasPrefix(t.Name, kind \o DoubleUnderscore)))

\* Two agents that Iris knows, and the UUID of one that it does not know.
AgentUUID1 == <<"a", "-", "1">>
AgentUUID2 == <<"a", "-", "2">>
AgentUUID3 == <<"a", "-", "3">>
agentsUUIDName == (AgentUUID1 :> "iris-europe-west1") @@ (AgentUUID2 :> "iris-us-east4")

\* agents.GetAgentName
GetAgentName(uuid) ==
    IF uuid \in DOMAIN agentsUUIDName THEN agentsUUIDName[uuid] ELSE "?"

\* getOneMeasTables that selects the tables of the agents of --agent only.
getOneMeasTablesOfAgents(uuid) ==
    IF uuid \in lookupFails THEN RunQueryError
    ELSE parseMeasTables(SelectSeq(catalog,
             LAMBDA t :
                 /\ Contains(t.Name, ReplaceAll(uuid, "-", "_"))
                 /\ \/ fAnalyzeAgents = <<>>
                    \/ \E j \in 1..Len(fAnalyzeAgents) :
                          fAnalyzeAgents[j] = GetAgentName(ReplaceAll(
                              parseMeasAgentUUIDs(t.Name).agentUUID, "_", "-"))))

\* getOneMeasTables: the tables whose name holds the UUID, "-" as "_".
getOneMeasTables(uuid) ==
    IF uuid \in lookupFails THEN RunQueryError
    ELSE parseMeasTables(SelectSeq(catalog,
             LAMBDA t : Contains(t.Name, ReplaceAll(uuid, "-", "_"))))

---------------------------------------------------------------------------
(* analyze tables: printing the tables.                                    *)

\* common.HumanReadable: the number, or its tenths of a unit ("%.1f").
Tenths(k, unit) == (k + unit \div 20) \div (unit \div 10)
HumanReadable(k) ==
    IF k >= 1000000000 THEN [tenths |-> Tenths(k, 1000000000), unit |-> "B"]
    ELSE IF k >= 1000000 THEN [tenths |-> Tenths(k, 1000000), unit |-> "M"]
    ELSE IF k >= 1000 THEN [tenths |-> Tenths(k, 1000), unit |-> "K"]
    ELSE [tenths |-> 10 * k, unit |-> ""]

\* sortByKey: the names of the tables in increasing order.
RECURSIVE SortNames(_)
SortNames(S) ==
    IF S = {} THEN <<>>
    ELSE LET lo == CHOOSE x \in S : \A y \in S \ {x} : StrLess(x, y)
         IN  <<lo>> \o SortNames(S \ {lo})
sortByKey(data) == SortNames(DOMAIN data)

\* printTableDetails: the line of one table, flagged on rows only.
TableLineRowsOnly(tblName, tblDetails, h) ==
    [line |-> "table", name |-> tblName, modTime |-> tblDetails.modTime,
     rows |-> HumanReadable(tblDetails.rows),
     bytes |-> HumanReadable(tblDetails.bytes), agent |-> h,
     warning |-> tblDetails.rows = 0]

\* printTableDetails: the line of one table.
TableLine(tblName, tblDetails, h) ==
    [line |-> "table", name |-> tblName, modTime |-> tblDetails.modTime,
     rows |-> HumanReadable(tblDetails.rows),
     bytes |-> HumanReadable(tblDetails.bytes), agent |-> h,
     warning |-> (tblDetails.rows = 0 \/ tblDetails.bytes = 0)]

\* printTableDetails: the lines of the tables from the k-th name on.
RECURSIVE TableLines(_, _, _)
TableLines(data, names, k) ==
    IF k > Len(names) THEN [printed |-> <<>>, panic |-> FALSE]
    ELSE LET tblName == names[k]
             parsed == parseMeasAgentUUIDs(tblName)
             h == GetAgentName(ReplaceAll(parsed.agentUUID, "_", "-"))
             skip == /\ Len(fAnalyzeAgents) > 0
                     /\ \A j \in 1..Len(fAnalyzeAgents) : fAnalyzeAgents[j] # h
             rest == TableLines(data, names, k + 1)
         IN  IF parsed.err THEN [printed |-> <<>>, panic |-> TRUE]
             ELSE IF skip THEN rest
             ELSE [printed |-> <<TableLine(tblName, data[tblName], h)>> \o rest.printed,
                   panic |-> rest.panic]

printTableDetails(data) == TableLines(data, sortByKey(data), 1)

\* What verbose prints.
Verbose(msg, arg) == IF verbose THEN <<[line |-> msg, arg |-> arg]>> ELSE <<>>

\* printTables: the loop from the k-th table on, with the tables gathered
\* for the measurement prevMeasUUID in data.
RECURSIVE PrintTablesLoop(_, _, _, _, _)
PrintTablesLoop(measTables, k, data, prevMeasUUID, printed) ==
    IF k > Len(measTables)
    THEN LET last == printTableDetails(data)
         IN  [err |-> "", panic |-> last.panic, printed |-> printed \o last.printed]
    ELSE LET table == measTables[k]
             modTime == table.ModTime
             parsed == parseMeasAgentUUIDs(table.Name)
             details == [modTime |-> table.ModTime.t, rows |-> table.Rows,
                         bytes |-> table.Bytes]
             prev == IF prevMeasUUID = <<>> THEN parsed.measUUID ELSE prevMeasUUID
         IN  IF ~modTime.valid
             THEN [err |-> "parsing time", panic |-> FALSE, printed |-> printed]
             ELSE IF \/ ~After(modTime.t, fAnalyzeAfter)
                     \/ ~Before(modTime.t, fAnalyzeBefore)
             THEN PrintTablesLoop(measTables, k + 1, data, prevMeasUUID,
                                  printed \o Verbose("skipping", table.Name))
             ELSE IF parsed.err
             THEN [err |-> "invalid table name", panic |-> FALSE, printed |-> printed]
             ELSE IF prev # parsed.measUUID
             THEN LET group == printTableDetails(data)
                  IN  IF group.panic
                      THEN [err |-> "", panic |-> TRUE, printed |-> printed]
                      ELSE PrintTablesLoop(measTables, k + 1,
                               (table.Name :> details), parsed.measUUID,
                               printed \o <<[line |-> "measurement", uuid |-> prev]>>
                                       \o group.printed)
             ELSE PrintTablesLoop(measTables, k + 1,
                      (table.Name :> details) @@ data, prev, printed)

printTables(measTables) == PrintTablesLoop(measTables, 1, <<>>, <<>>, <<>>)

---------------------------------------------------------------------------
(* analyze tables: the command.                                            *)

\* "2040-01-01T00:00:00.000" and the instant it denotes in the model.
LastMeasurementDate ==
    <<"2", "0", "4", "0", "-", "0", "1", "-", "0", "1", "T",
      "0", "0", ":", "0", "0", ":", "0", "0", ".", "0", "0", "0">>
LastMeasurementInstant == 9 * SecondsPerDay

\* analyzeTables up to its loop: all the tables by name when no filter is
\* given (the two dates are parsed with their errors ignored), else the
\* measurements of the metadata file one by one.
TablesStart ==
    /\ cmd = "tables" /\ pc = "start"
    /\ LET ta == Parse(DateLayout, FirstMeasurementDate, FirstMeasurementInstant).t
           tb == Parse(DateLayout, LastMeasurementDate, LastMeasurementInstant).t
           hello == Verbose("analyze tables of measurement(s)", <<>>)
       IN  IF /\ fAnalyzeAllUsers /\ Len(args) = 0
              /\ Len(fAnalyzeTag) = 0 /\ Len(fAnalyzeState) = 0
              /\ fTablesMeasUUID = <<>>
              /\ ta = fAnalyzeAfter /\ tb = fAnalyzeBefore
           THEN LET all == getAllMeasTables
                    p == printTables(all.measTables)
                IN  /\ queries' = Append(queries, AllTables)
                    /\ IF all.err # ""
                       THEN /\ out' = out \o hello \o <<Fatal(all.err, AllTables)>>
                            /\ pc' = "fatal"
                       ELSE /\ out' = out \o hello \o p.printed
                                          \o IF p.err # "" THEN <<Fatal(p.err, AllTables)>>
                                             ELSE <<>>
                            /\ pc' = IF p.panic THEN "panic"
                                     ELSE IF p.err # "" THEN "fatal" ELSE "done"
           ELSE /\ out' = out \o hello
                /\ pc' = "loop"
                /\ UNCHANGED queries
    /\ UNCHANGED <<cmd, flags, measurements, i, totals, accums, tagMaps>>
    /\ UNCHANGED <<fAnalyzeAllUsers, args, fTablesMeasUUID, fAnalyzeAgents,
                   catalog, lookupFails, nAnalyzed, exceptTables>>

\* analyzeTablesByMeasurement: one iteration of its loop.  An error that
\* it returns is fatal in analyzeTables.
TablesStep ==
    /\ cmd = "tables" /\ pc = "loop" /\ i <= Len(measurements)
    /\ LET measurement == measurements[i]
           lookup == getOneMeasTables(measurement.UUID)
           nFound == Len(lookup.measTables)
           nExpected == Len(measurement.Agents) * 4
           output == [line |-> "tables", uuid |-> measurement.UUID,
                      tags |-> measurement.Tags, state |-> measurement.State,
                      nFound |-> nFound,
                      error |-> IF nFound # nExpected THEN <<nExpected>> ELSE <<>>]
           progress == [line |-> "progress", n |-> nAnalyzed + 1,
                        uuid |-> measurement.UUID,
                        newline |-> fTablesMeasUUID # <<>>]
           p == printTables(lookup.measTables)
       IN  IF \/ measSkip(measurement)
              \/ fTablesMeasUUID # <<>> /\ fTablesMeasUUID # measurement.UUID
           THEN /\ out' = out \o Verbose("skipping", measurement.UUID)
                /\ i' = i + 1
                /\ UNCHANGED <<pc, nAnalyzed, queries>>
           ELSE IF Len(measurement.Agents) = 0
           THEN /\ out' = out \o Verbose("skipping because it has 0 agents",
                                         measurement.UUID)
                /\ i' = i + 1
                /\ UNCHANGED <<pc, nAnalyzed, queries>>
           ELSE IF lookup.err # "" /\ lookup.err # ErrZeroLength
           THEN /\ out' = Append(out, Fatal(lookup.err, measurement.UUID))
                /\ pc' = "fatal"
                /\ queries' = Append(queries, measurement.UUID)
                /\ UNCHANGED <<i, nAnalyzed>>
           ELSE IF lookup.err # ""
           THEN /\ out' = Append(out, [line |-> "WARNING: no ClickHouse tables",
                                       uuid |-> measurement.UUID])
                /\ i' = i + 1
                /\ queries' = Append(queries, measurement.UUID)
                /\ UNCHANGED <<pc, nAnalyzed>>
           ELSE /\ nAnalyzed' = nAnalyzed + 1
                /\ queries' = Append(queries, measurement.UUID)
                /\ out' = out \o <<IF verbose THEN output ELSE progress>>
                              \o p.printed
                              \o IF p.err # "" THEN <<Fatal(p.err, measurement.UUID)>>
                                 ELSE <<>>
                /\ IF p.panic THEN pc' = "panic" /\ i' = i
                   ELSE IF p.err # "" THEN pc' = "fatal" /\ i' = i
                   ELSE pc' = pc /\ i' = i + 1
    /\ UNCHANGED <<cmd, flags, measurements, totals, accums, tagMaps>>
    /\ UNCHANGED <<fAnalyzeAllUsers, args, fTablesMeasUUID, fAnalyzeAgents,
                   catalog, lookupFails, exceptTables>>

\* analyzeTablesByMeasurement returns n, and analyzeTables reports n = 0.
TablesReturn ==
    /\ cmd = "tables" /\ pc = "loop" /\ i > Len(measurements)
    /\ out' = out \o (IF verbose THEN <<>> ELSE <<[line |-> "newline"]>>)
                  \o (IF nAnalyzed = 0
                      THEN <<[line |-> "no measurements; did you forget --all-users?"]>>
                      ELSE <<>>)
    /\ pc' = "done"
    /\ UNCHANGED <<cmd, flags, measurements, i, totals, accums, tagMaps>>
    /\ UNCHANGED <<tablesVars, exceptTables>>

NextTables == TablesStart \/ TablesStep \/ TablesReturn


MaxTablesMeas == 2

\* The UUID of the k-th measurement of the metadata file.
Digits == <<"1", "2", "3", "4", "5", "6", "7", "8", "9">>
MeasUUID(k) == <<"m", "-", Digits[k]>>

\* The tables Iris creates for a measurement: one of each kind for each
\* agent, modified at the instant t.
RECURSIVE AgentsTables(_, _, _)
AgentsTables(uuid, agents, t) ==
    IF agents = <<>> THEN <<>>
    ELSE <<MeasTable(TableName(Links, uuid, Head(agents)), TRUE, t, 5, 1500),
           MeasTable(TableName(Prefixes, uuid, Head(agents)), TRUE, t, 5, 1500),
           MeasTable(TableName(Probes, uuid, Head(agents)), TRUE, t, 5, 1500),
           MeasTable(TableName(Results, uuid, Head(agents)), TRUE, t, 5, 1500)>>
         \o AgentsTables(uuid, Tail(agents), t)

\* What the catalog can hold of them.
CatalogCases == {"complete", "none", "missing", "no rows", "no bytes", "bad time"}
CatalogTables(uuid, agents, t, case) ==
    LET all == AgentsTables(uuid, agents, t)
    IN  IF case = "none" \/ all = <<>> THEN <<>>
        ELSE IF case = "missing" THEN Tail(all)
        ELSE IF case = "no rows" THEN <<[all[1] EXCEPT !.Rows = 0]>> \o Tail(all)
        ELSE IF case = "no bytes" THEN <<[all[1] EXCEPT !.Bytes = 0]>> \o Tail(all)
        ELSE IF case = "bad time"
        THEN <<[all[1] EXCEPT !.ModTime.valid = FALSE]>> \o Tail(all)
        ELSE all

\* A measurement and the state of its tables.
TablesInputs ==
    {[c |-> Instant2, agents |-> <<>>, case |-> "complete"],
     [c |-> Instant2, agents |-> <<AgentUUID1>>, case |-> "complete"],
     [c |-> Instant3 - Hour, agents |-> <<AgentUUID2>>, case |-> "complete"],
     [c |-> Instant2, agents |-> <<AgentUUID1>>, case |-> "none"],
     [c |-> Instant2, agents |-> <<AgentUUID2>>, case |-> "no bytes"],
     [c |-> Instant2, agents |-> <<AgentUUID3>>, case |-> "bad time"],
     [c |-> Instant2, agents |-> <<AgentUUID1, AgentUUID2, AgentUUID3>>, case |-> "complete"],
     [c |-> Instant2, agents |-> <<AgentUUID1, AgentUUID2, AgentUUID3>>, case |-> "missing"],
     [c |-> Instant2, agents |-> <<AgentUUID1, AgentUUID2, AgentUUID3>>, case |-> "no rows"]}

RECURSIVE Catalog(_, _)
Catalog(inputs, k) ==
    IF k > Len(inputs) THEN <<>>
    ELSE CatalogTables(MeasUUID(k), inputs[k].agents, inputs[k].c + 2 * Hour,
                       inputs[k].case)
         \o Catalog(inputs, k + 1)

\* The flags of analyze tables: quiet and verbose without a filter, one
\* measurement, one agent, two agents, a failing query, and no filter at all for all
\* the users, with the default window and with the window at the zero time.
TablesFlags ==
    LET Flags(v, all, uuid, agents, fails, after, before) ==
            [verbose |-> v, allUsers |-> all, measUUID |-> uuid,
             agents |-> agents, fails |-> fails, after |-> after, before |-> before]
    IN  {Flags(FALSE, FALSE, <<>>, <<>>, {}, Instant1, Instant3),
         Flags(TRUE, FALSE, <<>>, <<>>, {}, Instant1, Instant3),
         Flags(TRUE, FALSE, MeasUUID(1), <<>>, {}, Instant1, Instant3),
         Flags(FALSE, FALSE, MeasUUID(2), <<>>, {}, Instant1, Instant3),
         Flags(TRUE, FALSE, <<>>, <<"iris-us-east4">>, {}, Instant1, Instant3),
         Flags(FALSE, FALSE, <<>>, <<"iris-europe-west1", "iris-us-east4">>, {},
               Instant1, Instant3),
         Flags(TRUE, FALSE, <<>>, <<>>, {MeasUUID(1)}, Instant1, Instant3),
         Flags(FALSE, FALSE, <<>>, <<>>, {MeasUUID(2)}, Instant1, Instant3),
         Flags(FALSE, TRUE, <<>>, <<>>, {}, FirstMeasurementInstant, LastMeasurementInstant),
         Flags(TRUE, TRUE, <<>>, <<>>, {}, 0, 0),
         Flags(TRUE, TRUE, <<>>, <<>>, {AllTables}, 0, 0)}

InitTables ==
    /\ Start("tables")
    /\ IdleExceptTables
    /\ fAnalyzeTag = <<>> /\ fAnalyzeTagsAnd = FALSE /\ fAnalyzeState = <<>>
    /\ args = <<>> /\ nAnalyzed = 0 /\ queries = <<>>
    /\ \E f \in TablesFlags :
          /\ verbose = f.verbose /\ fAnalyzeAllUsers = f.allUsers
          /\ fTablesMeasUUID = f.measUUID /\ fAnalyzeAgents = f.agents
          /\ lookupFails = f.fails
          /\ fAnalyzeAfter = f.after /\ fAnalyzeBefore = f.before
    /\ \E inputs \in UNION {[1..len -> TablesInputs] : len \in 0..MaxTablesMeas} :
          /\ \A k \in 1..(Len(inputs) - 1) : inputs[k].c <= inputs[k + 1].c
          /\ measurements =
                [k \in 1..Len(inputs) |->
                    [Measurement(<<>>, "finished", inputs[k].c, inputs[k].c + 60,
                                 inputs[k].c + Hour, inputs[k].agents)
                        EXCEPT !.UUID = MeasUUID(k)]]
          /\ catalog = Catalog(inputs, 1)

SpecTables == InitTables /\ [][NextTables]_vars


---------------------------------------------------------------------------
(* Properties of analyze tables.                                           *)

\* The k-th measurement passes the filter and has agents: its tables are
\* looked up.
LookedUp(k) ==
    /\ Accepts(measurements[k])
    /\ fTablesMeasUUID \in {<<>>, measurements[k].UUID}
    /\ Len(measurements[k].Agents) > 0

\* The tables of the catalog that belong to the k-th measurement.
TablesOf(k) ==
    {j \in 1..Len(catalog) :
        Contains(catalog[j].Name, ReplaceAll(measurements[k].UUID, "-", "_"))}

QueryFails(k) == measurements[k].UUID \in lookupFails

\* The loop has analysed the k-th measurement.
Analysed(k) == k < i /\ LookedUp(k) /\ ~QueryFails(k) /\ TablesOf(k) # {}

\* The output flags the k-th measurement with "<== ERROR: expected N".
FlaggedExpected(k, N) ==
    \E j \in 1..Len(out) :
        /\ out[j].line = "tables"
        /\ out[j].uuid = measurements[k].UUID
        /\ out[j].error = <<N>>

\* C13: every analysed measurement with at least one agent is flagged with
\* "<== ERROR: expected N", N = 4 * len(agents), iff the number of tables
\* of the catalog that match it differs from N, in every output mode.
C13_ExpectedCountFlag ==
    cmd = "tables" =>
        \A k \in 1..Len(measurements) :
            Analysed(k) =>
                LET N == 4 * Len(measurements[k].Agents)
                IN  FlaggedExpected(k, N) <=> Cardinality(TablesOf(k)) # N

\* The table of the catalog with a name.
CatalogTable(name) == catalog[CHOOSE j \in 1..Len(catalog) : catalog[j].Name = name]

\* C14: every table line that is rendered carries "<== WARNING: expected
\* > 0" iff the table has zero rows or zero bytes.
C14_ZeroRowsOrBytesFlag ==
    cmd = "tables" =>
        \A j \in 1..Len(out) :
            out[j].line = "table" =>
                (out[j].warning <=> \/ CatalogTable(out[j].name).Rows = 0
                                    \/ CatalogTable(out[j].name).Bytes = 0)

\* A table with rows and no bytes is rendered with the flag, and a table
\* with rows and bytes without it.
C14_Witness ==
    /\ cmd = "tables"
    /\ \E j \in 1..Len(out) :
          /\ out[j].line = "table" /\ out[j].warning
          /\ CatalogTable(out[j].name).Rows > 0
          /\ CatalogTable(out[j].name).Bytes = 0
    /\ \E j \in 1..Len(out) :
          /\ out[j].line = "table" /\ ~out[j].warning
          /\ CatalogTable(out[j].name).Rows > 0
          /\ CatalogTable(out[j].name).Bytes > 0

Warned(k) ==
    \E j \in 1..Len(out) :
        /\ out[j].line = "WARNING: no ClickHouse tables"
        /\ out[j].uuid = measurements[k].UUID

\* C16: in the analysis by measurement, a lookup that finds no table for a
\* measurement prints a WARNING and the loop goes on to the next
\* measurement, never ending the command at that measurement; a lookup
\* that fails otherwise ends the loop there with that error.
C16_ZeroLengthIsWarning ==
    cmd = "tables" =>
        \A k \in 1..Len(measurements) :
            LookedUp(k) =>
                /\ (~QueryFails(k) /\ TablesOf(k) = {}) =>
                      /\ ~(pc \in {"fatal", "panic"} /\ i = k)
                      /\ k < i => Warned(k)
                      /\ (pc = "loop" /\ i = k) => ENABLED TablesStep
                /\ QueryFails(k) =>
                      /\ i <= k /\ pc # "done"
                      /\ (pc = "fatal" /\ i = k) =>
                            out[Len(out)] = Fatal("curl", measurements[k].UUID)
                      /\ (pc = "loop" /\ i = k) => ~ENABLED TablesReturn

\* A measurement without tables has been warned about and the measurement
\* after it has been analysed.
C16_Witness ==
    /\ cmd = "tables" /\ pc = "done"
    /\ \E k \in 1..Len(measurements) :
          /\ LookedUp(k) /\ TablesOf(k) = {} /\ Warned(k)
          /\ k < Len(measurements) /\ Analysed(k + 1)
          /\ \E j \in 1..Len(out) :
                /\ out[j].line \in {"tables", "progress"}
                /\ out[j].uuid = measurements[k + 1].UUID


---------------------------------------------------------------------------
(* parseMeasAgentUUIDs on the names of tables.                             *)

\* The function is applied to the name.
ParseName ==
    /\ cmd = "parseMeasAgentUUIDs" /\ pc = "start"
    /\ parseResult' = parseMeasAgentUUIDs(nameToParse)
    /\ pc' = "done"
    /\ UNCHANGED <<cmd, flags, measurements, i, totals, accums, tagMaps, out>>
    /\ UNCHANGED <<nameToParse, exceptParse>>

\* The UUIDs of the names: up to MaxUUIDGroups groups joined by hyphens.
MaxUUIDGroups == 2
UUIDGroups == {<<"a">>, <<"1", "f">>}
RECURSIVE UUIDsOf(_)
UUIDsOf(groups) ==
    IF groups = 0 THEN {}
    ELSE IF groups = 1 THEN UUIDGroups
    ELSE UUIDsOf(groups - 1)
         \cup {u \o <<"-">> \o g : u \in UUIDsOf(groups - 1), g \in UUIDGroups}
UUIDs == UUIDsOf(MaxUUIDGroups)

\* Names that no table of Iris has.
OtherNames ==
    {<<>>, Results, Results \o <<"_">> \o <<"a">>,
     Results \o DoubleUnderscore \o <<"a">>,
     Results \o DoubleUnderscore \o <<"a", "_", "1", "f">>,
     <<"a", "_", "_", "_", "b">>, <<"a", "_", "_", "_", "_", "b">>,
     DoubleUnderscore, DoubleUnderscore \o DoubleUnderscore}

InitParse ==
    /\ Start("parseMeasAgentUUIDs")
    /\ verbose = FALSE /\ fAnalyzeTag = <<>> /\ fAnalyzeTagsAnd = FALSE
    /\ fAnalyzeState = <<>> /\ fAnalyzeAfter = Instant1 /\ fAnalyzeBefore = Instant3
    /\ measurements = <<>>
    /\ IdleExceptParse
    /\ nameToParse \in OtherNames
          \cup {TableName(kind, m, a) : kind \in TableKinds, m \in UUIDs, a \in UUIDs}
    /\ parseResult = <<>>

NextParse == ParseName

SpecParse == InitParse /\ [][NextParse]_vars

\* strings.Count(s, substr): the occurrences that do not overlap.
RECURSIVE Count(_, _)
Count(s, substr) ==
    LET k == Index(s, substr)
    IN  IF k = 0 - 1 THEN 0
        ELSE 1 + Count(SubSeq(s, k + Len(substr) + 1, Len(s)), substr)

\* C15: parsing the name <kind>__<m'>__<a'>, m' and a' a measurement UUID
\* m and an agent UUID a with their hyphens replaced by underscores,
\* returns m and a; parsing a name without two occurrences of "__" returns
\* ErrInvalidTableName.
C15_ParseRoundTrip ==
    (cmd = "parseMeasAgentUUIDs" /\ pc = "done") =>
        /\ \A kind \in TableKinds, m \in UUIDs, a \in UUIDs :
              nameToParse = TableName(kind, m, a) =>
                  parseResult = [measUUID |-> m, agentUUID |-> a, err |-> FALSE]
        /\ Count(nameToParse, DoubleUnderscore) < 2 => parseResult = ErrInvalidTableName

\* C15, as the code has it: the measurement UUID is returned with its
\* hyphens back and the agent UUID as it is in the name, a', which
\* printTableDetails turns into a; a name without two occurrences of "__"
\* is the error ErrInvalidTableName, and only such a name.
C15_ParseMeasurementRoundTrip ==
    (cmd = "parseMeasAgentUUIDs" /\ pc = "done") =>
        /\ \A kind \in TableKinds, m \in UUIDs, a \in UUIDs :
              nameToParse = TableName(kind, m, a) =>
                  /\ parseResult = [measUUID |-> m,
                               agentUUID |-> ReplaceAll(a, "-", "_"),
                               err |-> FALSE]
                  /\ ReplaceAll(parseResult.agentUUID, "_", "-") = a
        /\ Count(nameToParse, DoubleUnderscore) < 2 <=> parseResult = ErrInvalidTableName

\* The name of a table whose two UUIDs have a hyphen has been parsed.
C15_Witness ==
    /\ cmd = "parseMeasAgentUUIDs" /\ pc = "done"
    /\ ~parseResult.err
    /\ \E j \in 1..Len(parseResult.measUUID) : parseResult.measUUID[j] = "-"
    /\ \E j \in 1..Len(parseResult.agentUUID) : parseResult.agentUUID[j] = "_"


---------------------------------------------------------------------------
(* Package check: agentDetails, which runs a command on every host in      *)
(* parallel.                                                               *)

\* strings.TrimRight(s, cutset)
RECURSIVE TrimRight(_, _)
TrimRight(s, cutset) ==
    IF s # <<>> /\ s[Len(s)] \in cutset
    THEN TrimRight(SubSeq(s, 1, Len(s) - 1), cutset) ELSE s

\* fmt.Sprintf("%-30s", s)
PadRight(s, width) ==
    s \o [k \in 1..(IF Len(s) < width THEN width - Len(s) ELSE 0) |-> " "]

\* strings.ReplaceAll(s, old, new) for a text old that is not empty
RECURSIVE ReplaceText(_, _, _)
ReplaceText(s, old, new) ==
    LET k == Index(s, old)
    IN  IF k = 0 - 1 THEN s
        ELSE SubSeq(s, 1, k) \o new
             \o ReplaceText(SubSeq(s, k + Len(old) + 1, Len(s)), old, new)

\* agents.ReplaceAgentUUIDs: the UUID of every known agent gives way to
\* its name (no UUID is part of another one or of a name).
RECURSIVE ReplaceUUIDs(_, _)
ReplaceUUIDs(s, uuids) ==
    IF uuids = {} THEN s
    ELSE LET uuid == CHOOSE u \in uuids : TRUE
         IN  ReplaceUUIDs(ReplaceText(s, uuid, <<agentsUUIDName[uuid]>>), uuids \ {uuid})
ReplaceAgentUUIDs(s) == ReplaceUUIDs(s, DOMAIN agentsUUIDName)

ConnectionTo == <<"C", "o", "n", "n", "e", "c", "t", "i", "o", "n", " ", "t", "o", " ">>
ContainerID == <<"C", "O", "N", "T", "A", "I", "N", "E", "R", " ", "I", "D">>
ErrorText == <<"e", "r", "r", "o", "r">>
TwoSpaces == <<" ", " ">>

\* agentDetails: what is printed of the lines of one host from the k-th
\* line on.
RECURSIVE OutputParts(_, _, _)
OutputParts(detail, output, k) ==
    IF k > Len(output) THEN <<>>
    ELSE LET o == TrimRight(output[k], {"\r"})
             rest == OutputParts(detail, output, k + 1)
         IN  IF HasPrefix(o, ConnectionTo) \/ HasPrefix(o, ContainerID) THEN rest
             ELSE IF detail \in {"uptime", "net"}
             THEN IF k = 1
                  THEN <<PadRight(TrimRight(o, {"\r", "\n"}), 30)>> \o rest
                  ELSE <<TrimRight(o, {"\r", "\n"}), TwoSpaces>> \o rest
             ELSE IF detail = "errors"
             THEN IF Contains(ToLower(o), ErrorText)
                  THEN <<ReplaceAgentUUIDs(o)>> \o rest ELSE rest
             ELSE <<o>> \o rest

\* agentDetails: the line printed for the output of one host, if any.
RenderOutput(detail, output) ==
    LET s == OutputParts(detail, output, 1)
    IN  IF Len(s) > 0 THEN <<[line |-> "agent", text |-> Join(s, TwoSpaces)]>>
        ELSE <<>>

\* A goroutine that sends nothing once another one has failed.
WorkerSendCancelled(result, outputs, errs) ==
    IF result.err \/ errs # <<>>
    THEN [allOutput |-> outputs, allErrors |-> Append(errs, result.hostname)]
    ELSE [allOutput |-> Append(outputs, result.output), allErrors |-> errs]

\* The goroutine of one host after GcloudSSH: the two channels once it has
\* sent its error or its output.
WorkerSend(result, outputs, errs) ==
    IF result.err
    THEN [allOutput |-> outputs, allErrors |-> Append(errs, result.hostname)]
    ELSE [allOutput |-> Append(outputs, result.output), allErrors |-> errs]

\* Channels that are short of room for one host.
ChannelCapacityOneShort == Len(gcpHostnames) - 1

\* make(chan ..., len(gcpHostnames)): the capacity of each of the two
\* channels.
ChannelCapacity == Len(gcpHostnames)

\* The send of the goroutine of the k-th host does not block: the channel
\* it sends on is not full.
CanSend(k) ==
    Len(IF sshResult[k].err THEN allErrors ELSE allOutput) < ChannelCapacity

Details == {"uptime", "net", "dockerps", "errors", "logs"}

\* agentDetails: the switch on what; fatal ends the program.
FanoutStart ==
    /\ cmd = "agentDetails" /\ pc = "start"
    /\ IF whatToCheck \in Details
       THEN pc' = "spawn" /\ out' = out
       ELSE pc' = "fatal" /\ out' = Append(out, Fatal(whatToCheck, <<>>))
    /\ UNCHANGED <<cmd, flags, measurements, i, totals, accums, tagMaps>>
    /\ UNCHANGED <<fanoutVars, exceptFanout>>

\* agentDetails: wg.Add(1) and the go statement for the next host.
Spawn ==
    /\ cmd = "agentDetails" /\ pc = "spawn" /\ i <= Len(gcpHostnames)
    /\ out' = out \o Verbose("checking agent", gcpHostnames[i])
    /\ wg' = wg + 1
    /\ worker' = [worker EXCEPT ![i] = "ssh"]
    /\ i' = i + 1
    /\ UNCHANGED <<cmd, flags, measurements, pc, totals, accums, tagMaps>>
    /\ UNCHANGED <<gcpHostnames, whatToCheck, sshResult, allOutput, allErrors,
                   errors, ranged, exceptFanout>>

\* The goroutine of the k-th host: GcloudSSH returns.
WorkerSSH(k) ==
    /\ cmd = "agentDetails" /\ worker[k] = "ssh"
    /\ worker' = [worker EXCEPT ![k] = "send"]
    /\ UNCHANGED core
    /\ UNCHANGED <<gcpHostnames, whatToCheck, sshResult, wg, allOutput, allErrors,
                   errors, ranged, exceptFanout>>

\* The goroutine of the k-th host: it sends on a channel once the channel
\* has room, returns and runs the deferred wg.Done().
WorkerReturn(k) ==
    /\ cmd = "agentDetails" /\ worker[k] = "send"
    /\ CanSend(k)
    /\ LET sent == WorkerSend(sshResult[k], allOutput, allErrors)
       IN  allOutput' = sent.allOutput /\ allErrors' = sent.allErrors
    /\ wg' = wg - 1
    /\ worker' = [worker EXCEPT ![k] = "done"]
    /\ UNCHANGED core
    /\ UNCHANGED <<gcpHostnames, whatToCheck, sshResult, errors, ranged, exceptFanout>>

\* agentDetails without wg.Wait(): the channels are closed and read as soon
\* as the goroutines have been started.
WaitWithoutBarrier ==
    /\ cmd = "agentDetails" /\ pc = "spawn" /\ i > Len(gcpHostnames)
    /\ pc' = "render"
    /\ UNCHANGED <<cmd, flags, measurements, i, totals, accums, tagMaps, out>>
    /\ UNCHANGED <<fanoutVars, exceptFanout>>

\* agentDetails: wg.Wait() returns and the two channels are closed.
Wait ==
    /\ cmd = "agentDetails" /\ pc = "spawn" /\ i > Len(gcpHostnames)
    /\ wg = 0
    /\ pc' = "render"
    /\ UNCHANGED <<cmd, flags, measurements, i, totals, accums, tagMaps, out>>
    /\ UNCHANGED <<fanoutVars, exceptFanout>>

\* agentDetails: the next output of the channel is printed.
Render ==
    /\ cmd = "agentDetails" /\ pc = "render" /\ allOutput # <<>>
    /\ out' = out \o RenderOutput(whatToCheck, Head(allOutput))
    /\ allOutput' = Tail(allOutput)
    /\ ranged' = Append(ranged, Head(allOutput)[1])
    /\ UNCHANGED <<cmd, flags, measurements, pc, i, totals, accums, tagMaps>>
    /\ UNCHANGED <<gcpHostnames, whatToCheck, sshResult, worker, wg, allErrors,
                   errors, exceptFanout>>

\* agentDetails: the errors of the channel are gathered and returned.
ReturnErrors ==
    /\ cmd = "agentDetails" /\ pc = "render" /\ allOutput = <<>>
    /\ errors' = allErrors
    /\ allErrors' = <<>>
    /\ pc' = "done"
    /\ UNCHANGED <<cmd, flags, measurements, i, totals, accums, tagMaps, out>>
    /\ UNCHANGED <<gcpHostnames, whatToCheck, sshResult, worker, wg, allOutput,
                   ranged, exceptFanout>>

NextFanout ==
    \/ FanoutStart \/ Spawn \/ Wait \/ Render \/ ReturnErrors
    \/ \E k \in 1..Len(gcpHostnames) : WorkerSSH(k) \/ WorkerReturn(k)


\* common.GcloudSSH: the error of the command, or the name of the host and
\* the lines of the output that are not empty, each followed by "\n".
GcloudSSH(hostname, command) ==
    IF command.err THEN [hostname |-> hostname, err |-> TRUE, output |-> <<>>]
    ELSE LET lines == SelectSeq(command.lines, LAMBDA l : l # <<>>)
         IN  [hostname |-> hostname, err |-> FALSE,
              output |-> <<hostname \o <<"\n">> >>
                         \o [k \in 1..Len(lines) |-> lines[k] \o <<"\n">>]]

MaxHosts == 3

\* The name of the k-th host.
Hostname(k) == <<"i", "r", "i", "s", "-", Digits[k]>>

\* What the command of gcloud compute ssh can end with on a host.
SSHFailure == [err |-> TRUE, lines |-> <<>>]
SSHOutcomes ==
    {SSHFailure,
     [err |-> FALSE, lines |-> <<<<"u", "p", " ", "3", " ", "d", "a", "y", "s", "\r">>>>],
     [err |-> FALSE,
      lines |-> <<<<"C", "O", "N", "T", "A", "I", "N", "E", "R", " ", "I", "D", " ", "N", "A", "M", "E", "S", "\r">>, <<"1", " ", "E", "R", "R", "O", "R", " ", "n", "o", " ", "r", "o", "u", "t", "e", "\r">>, <<>>,
                  <<"C", "o", "n", "n", "e", "c", "t", "i", "o", "n", " ", "t", "o", " ", "i", "r", "i", "s", " ", "c", "l", "o", "s", "e", "d", ".", "\r">>>>]}

InitFanout ==
    /\ Start("agentDetails")
    /\ verbose \in BOOLEAN
    /\ fAnalyzeTag = <<>> /\ fAnalyzeTagsAnd = FALSE /\ fAnalyzeState = <<>>
    /\ fAnalyzeAfter = Instant1 /\ fAnalyzeBefore = Instant3
    /\ measurements = <<>>
    /\ IdleExceptFanout
    /\ whatToCheck \in Details
    /\ \E hosts \in 0..MaxHosts :
          /\ gcpHostnames = [k \in 1..hosts |-> Hostname(k)]
          /\ \E commands \in [1..hosts -> SSHOutcomes] :
                sshResult = [k \in 1..hosts |-> GcloudSSH(Hostname(k), commands[k])]
          /\ worker = [k \in 1..hosts |-> "go"]
    /\ wg = 0 /\ allOutput = <<>> /\ allErrors = <<>> /\ errors = <<>>
    /\ ranged = <<>>

SpecFanout == InitFanout /\ [][NextFanout]_vars

\* The hosts whose command failed, and the others.
Failing == {k \in 1..Len(gcpHostnames) : sshResult[k].err}
Succeeding == {k \in 1..Len(gcpHostnames) : ~sshResult[k].err}

\* C17: agentDetails returns only after every goroutine has ended; by then
\* the output of every succeeding host has been rendered, once, whatever
\* the other hosts did, and the errors returned are one for each failing
\* host.
C17_FailuresDoNotCancel ==
    (cmd = "agentDetails" /\ pc = "done") =>
        /\ \A k \in 1..Len(gcpHostnames) : worker[k] = "done"
        /\ \A k \in Succeeding :
              LET rendered == RenderOutput(whatToCheck, sshResult[k].output)
              IN  rendered # <<>> =>
                      Cardinality({j \in 1..Len(out) : out[j] = rendered[1]})
                         = Cardinality({h \in Succeeding :
                               RenderOutput(whatToCheck, sshResult[h].output) = rendered})
        /\ Cardinality({j \in 1..Len(out) : out[j].line = "agent"})
              = Cardinality({h \in Succeeding :
                    RenderOutput(whatToCheck, sshResult[h].output) # <<>>})
        /\ Len(errors) = Cardinality(Failing)
        /\ \A k \in Failing :
              Cardinality({j \in 1..Len(errors) : errors[j] = gcpHostnames[k]}) = 1

\* agentDetails has returned after a host failed before and another after
\* a host that succeeded.
C17_Witness ==
    /\ cmd = "agentDetails" /\ pc = "done"
    /\ Len(gcpHostnames) = 3
    /\ Failing = {1, 3}
    /\ errors = <<gcpHostnames[3], gcpHostnames[1]>>
    /\ \E j \in 1..Len(out) : out[j].line = "agent"


---------------------------------------------------------------------------
(* common.GetMeasurementsSorted: the metadata file is a sequence of        *)
(* batches, each one a JSON value that decodes or does not.                *)

\* Measurement.Less
Less(m, t) == Before(m.CreationTime, t)

\* The orders in which sort.Slice, which is not stable, can leave the
\* measurements at the positions S of all.
RECURSIVE SliceOrders(_, _)
SliceOrders(all, S) ==
    IF S = {} THEN {<<>>}
    ELSE LET first == {x \in S : \A y \in S : ~Less(all[y], all[x].CreationTime)}
         IN  UNION {{<<all[x]>> \o t : t \in SliceOrders(all, S \ {x})} : x \in first}

\* decoder.Decode with an error that ends the loop as EOF does.
DecodeSkipsError(batches, k, all) ==
    IF k > Len(batches) \/ ~batches[k].valid
    THEN [eof |-> TRUE, err |-> FALSE, all |-> all]
    ELSE [eof |-> FALSE, err |-> FALSE, all |-> all \o batches[k].Measurements]

\* One iteration of the loop of GetMeasurementsSorted on the k-th batch:
\* the end of the file, an error of the decoder, or the batch appended.
Decode(batches, k, all) ==
    IF k > Len(batches) THEN [eof |-> TRUE, err |-> FALSE, all |-> all]
    ELSE IF ~batches[k].valid THEN [eof |-> FALSE, err |-> TRUE, all |-> all]
    ELSE [eof |-> FALSE, err |-> FALSE, all |-> all \o batches[k].Measurements]

\* GetMeasurementsSorted: an iteration that appends a batch.
LoadBatch ==
    /\ cmd = "GetMeasurementsSorted" /\ pc = "start"
    /\ LET d == Decode(file, nDecoded + 1, allMeasurements)
       IN  /\ ~d.eof /\ ~d.err
           /\ allMeasurements' = d.all
    /\ nDecoded' = nDecoded + 1
    /\ UNCHANGED core
    /\ UNCHANGED <<file, loaded, exceptLoad>>

\* GetMeasurementsSorted: the iteration that ends the loop, and the return.
LoadReturn ==
    /\ cmd = "GetMeasurementsSorted" /\ pc = "start"
    /\ LET d == Decode(file, nDecoded + 1, allMeasurements)
       IN  /\ d.eof \/ d.err
           /\ IF d.err
              THEN /\ loaded' = [err |-> TRUE, measurements |-> <<>>]
                   /\ UNCHANGED allMeasurements
              ELSE \E sorted \in SliceOrders(d.all, DOMAIN d.all) :
                      /\ allMeasurements' = sorted
                      /\ loaded' = [err |-> FALSE, measurements |-> sorted]
    /\ pc' = "done"
    /\ UNCHANGED <<cmd, flags, measurements, i, totals, accums, tagMaps, out>>
    /\ UNCHANGED <<file, nDecoded, exceptLoad>>

NextLoad == LoadBatch \/ LoadReturn

MaxBatches == 2

\* A batch that does not decode, and the batches that do: at most two
\* measurements, which differ in their UUID.
BadBatch == [valid |-> FALSE, Measurements |-> <<>>]
Batches(b) ==
    {BadBatch} \cup
    {[valid |-> TRUE,
      Measurements |-> [k \in 1..Len(times) |->
          [Measurement(<<>>, "finished", times[k], times[k] + 60,
                       times[k] + Hour, <<>>) EXCEPT !.UUID = <<b, k>>]]] :
        times \in UNION {[1..len -> {Instant1, Instant2}] : len \in 0..2}}

InitLoad ==
    /\ Start("GetMeasurementsSorted")
    /\ verbose = FALSE /\ fAnalyzeTag = <<>> /\ fAnalyzeTagsAnd = FALSE
    /\ fAnalyzeState = <<>> /\ fAnalyzeAfter = Instant1 /\ fAnalyzeBefore = Instant3
    /\ measurements = <<>>
    /\ IdleExceptLoad
    /\ \E len \in 0..MaxBatches :
          \E contents \in [1..len -> Batches(0)] :
              file = [b \in 1..len |->
                        [contents[b] EXCEPT !.Measurements =
                            [k \in 1..Len(contents[b].Measurements) |->
                                [contents[b].Measurements[k] EXCEPT !.UUID = <<b, k>>]]]]
    /\ nDecoded = 0 /\ allMeasurements = <<>> /\ loaded = <<>>

SpecLoad == InitLoad /\ [][NextLoad]_vars

\* The records of the batches of the file, as UUIDs.
RecordsOfFile ==
    UNION {{file[b].Measurements[k] : k \in 1..Len(file[b].Measurements)} :
              b \in 1..Len(file)}

\* C18: the load returns one sequence that holds every record of every
\* batch of the file exactly once, by non-decreasing creation time; if a
\* batch does not decode it returns an error and no record.
C18_LoadFlatSorted ==
    (cmd = "GetMeasurementsSorted" /\ pc = "done") =>
        IF \E b \in 1..Len(file) : ~file[b].valid
        THEN loaded = [err |-> TRUE, measurements |-> <<>>]
        ELSE /\ ~loaded.err
             /\ {loaded.measurements[k] : k \in 1..Len(loaded.measurements)}
                   = RecordsOfFile
             /\ Len(loaded.measurements) = Cardinality(RecordsOfFile)
             /\ \A k \in 1..(Len(loaded.measurements) - 1) :
                   loaded.measurements[k].CreationTime
                      <= loaded.measurements[k + 1].CreationTime

\* Two batches of two records have been loaded into one sequence, which
\* begins with the last record of the second batch.
C18_Witness ==
    /\ cmd = "GetMeasurementsSorted" /\ pc = "done"
    /\ Len(file) = 2 /\ ~loaded.err
    /\ Len(loaded.measurements) = 4
    /\ loaded.measurements[1].UUID = <<2, 2>>


---------------------------------------------------------------------------
(* analyze, invoked twice on the same measurements. Each invocation of the *)
(* command is a process of its own: the accumulators are package           *)
(* variables, which analyze does not reset and which the start of the      *)
(* process initialises.                                                    *)

\* The accumulators as a process that is not restarted would keep them.
PackageVarsKept ==
    [totFound |-> totFound, totAgentFailure |-> totAgentFailure,
     totCanceled |-> totCanceled, totFinished |-> totFinished,
     totOngoing |-> totOngoing, nResults |-> nResults,
     durationCS |-> durationCS, durationSE |-> durationSE,
     agentsPerMeas |-> agentsPerMeas]

\* The initial values of the package variables of analyze.
PackageVars ==
    [totFound |-> 0, totAgentFailure |-> 0, totCanceled |-> 0,
     totFinished |-> 0, totOngoing |-> 0, nResults |-> 0,
     durationCS |-> <<>>, durationSE |-> <<>>, agentsPerMeas |-> <<>>]

\* What an invocation of analyze leaves: how it ended, the counters, the
\* duration lists, the agent histogram and everything it printed.
Report == [pc |-> pc, totals |-> totals, accums |-> accums, out |-> out]

Ended == pc \in {"done", "fatal", "panic"}

\* The process of the first invocation has ended; the command is invoked
\* again, in a new process, on the same measurements with the same flags.
AnalyzeAgain ==
    /\ cmd = "analyze" /\ Ended /\ nRuns = 1
    /\ firstReport' = Report
    /\ nRuns' = 2
    /\ LET v == PackageVars IN
       /\ totFound' = v.totFound
       /\ totAgentFailure' = v.totAgentFailure
       /\ totCanceled' = v.totCanceled
       /\ totFinished' = v.totFinished
       /\ totOngoing' = v.totOngoing
       /\ nResults' = v.nResults
       /\ durationCS' = v.durationCS
       /\ durationSE' = v.durationSE
       /\ agentsPerMeas' = v.agentsPerMeas
    /\ pc' = "loop" /\ i' = 1 /\ out' = <<>>
    /\ UNCHANGED <<cmd, flags, measurements, tagMaps>>
    /\ UNCHANGED exceptRerun

NextRerun == AnalyzeStep \/ AnalyzePrint \/ AnalyzeAgain

MaxRerunMeas == 2

InitRerun ==
    /\ Start("analyze")
    /\ IdleExceptRerun
    /\ verbose \in BOOLEAN
    /\ fAnalyzeTag = <<>>
    /\ fAnalyzeTagsAnd = FALSE
    /\ fAnalyzeState = <<>>
    /\ fAnalyzeAfter = Instant1
    /\ fAnalyzeBefore = Instant3
    /\ measurements \in SortedMeasurements(AnalyzeMeasurements, MaxRerunMeas)
    /\ nRuns = 1 /\ firstReport = <<>>

SpecRerun == InitRerun /\ [][NextRerun]_vars

---------------------------------------------------------------------------
(* analyze on measurements whose durations are known: the k-th one starts  *)
(* k seconds, or one second, after its creation and runs for k minutes.    *)

MaxQuantileMeas == 10

\* The seconds from the creation of the k-th measurement to its start.
Delay(d, k) == IF d[k] THEN k ELSE 1

QuantileMeasurements ==
    UNION {{[k \in 1..len |->
                [Measurement(<<>>, "finished", Instant2 + k, Instant2 + k + Delay(d, k),
                             Instant2 + k + Delay(d, k) + 60 * k, <<"agent-1">>)
                    EXCEPT !.UUID = k]] :
              d \in {f \in [1..len -> BOOLEAN] : f[1]}} :
           len \in 1..MaxQuantileMeas}

InitQuantile ==
    /\ Start("analyze")
    /\ ExtIdle
    /\ verbose = FALSE
    /\ fAnalyzeTag = <<>>
    /\ fAnalyzeTagsAnd = FALSE
    /\ fAnalyzeState = <<>>
    /\ fAnalyzeAfter = Instant1
    /\ fAnalyzeBefore = Instant3
    /\ measurements \in QuantileMeasurements

SpecQuantile == InitQuantile /\ [][NextAnalyze]_vars

\* The lines of the report on the durations.
DurationLines == {out[k] : k \in {j \in 1..Len(out) : out[j].line = "DURATION"}}

\* C20: the reported P50 and P90 are quantiles interpolated linearly
\* between order statistics: for the samples 1, 2, ..., 10 seconds the
\* median is 5.5 and P90 lies between the 9th and the 10th order statistic,
\* and for every non-empty list min <= P50 <= P90 <= max.
C20_InterpolatedQuantiles ==
    (cmd = "analyze" /\ pc = "done") =>
        \A l \in DurationLines :
            /\ l.min <= l.p50 /\ l.p50 <= l.p90 /\ l.p90 <= l.max
            /\ (l.what = "creation time to start time"
                    /\ durationCS = [k \in 1..10 |-> k])
                  => (2 * l.p50 = 11 /\ 9 <= l.p90 /\ l.p90 <= 10)


---------------------------------------------------------------------------
(* analyze tables: the queries it sends to ClickHouse.                     *)

\* --all-users without a metadata file, --tag, --state or --meas-uuid, and
\* with --after and --before left at their defaults.
Unrestricted ==
    /\ fAnalyzeAllUsers /\ args = <<>>
    /\ fAnalyzeTag = <<>> /\ fAnalyzeState = <<>> /\ fTablesMeasUUID = <<>>
    /\ fAnalyzeAfter = FirstMeasurementInstant
    /\ fAnalyzeBefore = LastMeasurementInstant

\* The measurements of measurements[k..] that the loop looks up, in order.
RECURSIVE LookedUpFrom(_)
LookedUpFrom(k) ==
    IF k > Len(measurements) THEN <<>>
    ELSE (IF LookedUp(k) THEN <<measurements[k].UUID>> ELSE <<>>)
         \o LookedUpFrom(k + 1)

\* C21: analyze tables --all-users with no other restriction and the
\* default window sends one query, for the whole catalog, and no query for
\* a measurement; with a restriction it sends one query for each
\* measurement it analyses and none for the whole catalog.
C21_SingleCatalogQuery ==
    (cmd = "tables" /\ pc = "done") =>
        IF Unrestricted THEN queries = <<AllTables>>
        ELSE queries = LookedUpFrom(1)


---------------------------------------------------------------------------
(* analyze hours: the grid before the counting loop.                       *)

\* C22: before any record is counted, the grid that initHoursTable has
\* built holds every date from the first measurement date to the current
\* date, and every hour 00..23 of each of them with the count zero.
C22_DenseGrid ==
    (cmd = "hours" /\ pc # "start") =>
        LET table == initHoursTable
        IN  /\ ~table.err
            /\ \A d \in Date(FirstMeasurementInstant)..Date(now) :
                  /\ d \in DOMAIN table.measPerHour
                  /\ \A h \in 1..Len(hours) :
                        /\ hours[h] \in DOMAIN table.measPerHour[d]
                        /\ table.measPerHour[d][hours[h]] = 0


---------------------------------------------------------------------------
(* analyze: the histograms and the classification of the durations.        *)

\* The sum of the counts of the histogram m over its keys S, each count
\* multiplied by its key if byKey.
RECURSIVE SumOver(_, _, _)
SumOver(m, S, byKey) ==
    IF S = {} THEN 0
    ELSE LET key == CHOOSE x \in S : TRUE
         IN  (IF byKey THEN key * m[key] ELSE m[key]) + SumOver(m, S \ {key}, byKey)

\* The number of records that a histogram has counted.
HistogramTotal(m) == SumOver(m, DOMAIN m, FALSE)

\* C23: a record that passes the filter is in the state histogram and in
\* the agent-count histogram whatever its duration classification: a
\* TooLong record is counted like an OK one, and a record with an unset
\* instant is left out of the duration lists only, is reported in a WARNING
\* line and does not abort the run.
C23_ClassificationKeepsCounts ==
    (cmd = "analyze" /\ pc \in {"loop", "done"}) =>
        /\ totAgentFailure + totCanceled + totFinished + totOngoing
              = CountUpTo(Processed, Accepts)
        /\ HistogramTotal(agentsPerMeas) = CountUpTo(Processed, Accepts)
        /\ Len(durationCS) = CountUpTo(Processed, AcceptedAllSet)
        /\ \A k \in 1..Processed :
              (Accepts(measurements[k]) /\ HasSentinel(measurements[k]))
                  => WarnedUnset(k)


\* The line that analyze printed for measurement k carries the issue.
Annotated(k, issue) ==
    \E n \in 1..Len(out) :
        /\ out[n].line = "MEAS" /\ out[n].uuid = k
        /\ \E j \in 1..Len(out[n].issues) : out[n].issues[j] = issue

\* The records counted so far that have n agents.
CountedWithAgents(n) ==
    {k \in 1..Processed :
        AcceptedAllSet(measurements[k]) /\ Len(measurements[k].Agents) = n}

\* agentsPerMeas[n], which is 0 for a key that the map does not hold.
AgentsPerMeas(n) == IF n \in DOMAIN agentsPerMeas THEN agentsPerMeas[n] ELSE 0

\* C24: for every n, agentsPerMeas[n] is the number of the counted records
\* that have exactly n agents, and nResults is the sum of n *
\* agentsPerMeas[n]; a counted record without agents is counted under the
\* key 0 and is reported with the issue "has no agents".
C24_AgentHistogram ==
    (cmd = "analyze" /\ pc \in {"loop", "done"}) =>
        /\ \A n \in DOMAIN agentsPerMeas
                      \cup {Len(measurements[k].Agents) : k \in 1..Len(measurements)} :
              AgentsPerMeas(n) = Cardinality(CountedWithAgents(n))
        /\ nResults = SumOver(agentsPerMeas, DOMAIN agentsPerMeas, TRUE)
        /\ \A k \in CountedWithAgents(0) :
              0 \in DOMAIN agentsPerMeas /\ Annotated(k, "has no agents")

\* analyze has counted a record without agents and one with two agents.
C24_Witness ==
    /\ cmd = "analyze" /\ pc = "done" /\ totFound = 2
    /\ AgentsPerMeas(0) = 1 /\ AgentsPerMeas(2) = 1 /\ nResults = 2
    /\ Annotated(1, "has no agents") /\ ~Annotated(2, "has no agents")


---------------------------------------------------------------------------
(* analyze tables: the agents of --agent.                                  *)

\* The hostname of the agent of a table.
HostOf(name) ==
    GetAgentName(ReplaceAll(parseMeasAgentUUIDs(name).agentUUID, "_", "-"))

\* The table is one of an agent of --agent.
Listed(name) ==
    \E j \in 1..Len(fAnalyzeAgents) : fAnalyzeAgents[j] = HostOf(name)

\* The tables of the k-th measurement that were modified inside the window.
TablesInWindow(k) ==
    {j \in TablesOf(k) :
        /\ After(catalog[j].ModTime.t, fAnalyzeAfter)
        /\ Before(catalog[j].ModTime.t, fAnalyzeBefore)}

\* The line of the table is in the output.
Rendered(name) ==
    \E j \in 1..Len(out) : out[j].line = "table" /\ out[j].name = name

---------------------------------------------------------------------------
(* agentDetails: the barrier between the goroutines and the rendering.     *)

\* Every goroutine has been started and has ended.
AllWorkersDone == \A k \in 1..Len(gcpHostnames) : worker[k] = "done"

\* The two channels have been closed.
ChannelsClosed == pc \in {"render", "done"}

\* A line of the output of a host has been printed.
SomeOutputRendered == \E j \in 1..Len(out) : out[j].line = "agent"

\* C26: in every interleaving, no line of the output of a host is printed
\* and neither channel is closed before every goroutine has ended.
C26_RenderAfterBarrier ==
    cmd = "agentDetails" =>
        /\ ChannelsClosed => AllWorkersDone
        /\ SomeOutputRendered => (AllWorkersDone /\ ChannelsClosed)
        /\ ~AllWorkersDone => pc \in {"start", "spawn", "fatal"}

\* The output of one of three hosts has been printed and another output
\* waits in the channel; the three goroutines have ended.
C26_Witness ==
    /\ cmd = "agentDetails" /\ pc = "render"
    /\ Len(gcpHostnames) = 3 /\ AllWorkersDone
    /\ SomeOutputRendered /\ allOutput # <<>>


---------------------------------------------------------------------------
(* analyzeTablesByName: the whole catalog, printed by printTables.         *)

\* analyzeTablesByName: getAllMeasTables and printTables; an error that it
\* returns is fatal in analyzeTables.
TablesByName ==
    /\ cmd = "analyzeTablesByName" /\ pc = "start"
    /\ LET all == getAllMeasTables
           p == printTables(all.measTables)
       IN  /\ queries' = Append(queries, AllTables)
           /\ IF all.err # ""
              THEN /\ out' = Append(out, Fatal(all.err, AllTables))
                   /\ pc' = "fatal"
              ELSE /\ out' = out \o p.printed
                                 \o IF p.err # "" THEN <<Fatal(p.err, AllTables)>>
                                    ELSE <<>>
                   /\ pc' = IF p.panic THEN "panic"
                            ELSE IF p.err # "" THEN "fatal" ELSE "done"
    /\ UNCHANGED <<cmd, flags, measurements, i, totals, accums, tagMaps>>
    /\ UNCHANGED <<fAnalyzeAllUsers, args, fTablesMeasUUID, fAnalyzeAgents,
                   catalog, lookupFails, nAnalyzed, exceptTables>>

NextByName == TablesByName

MaxCatalogTables == 4

\* The names of the tables of two kinds of two measurements of one agent.
ByNameTables ==
    {TableName(kind, MeasUUID(m), AgentUUID1) :
        kind \in {Links, Results}, m \in 1..2}

\* The catalogs: tables of different names, in the order of their
\* modification times, which are inside the window but for the first one
\* when --after is the later instant.
InitByName ==
    /\ Start("analyzeTablesByName")
    /\ IdleExceptTables
    /\ verbose \in BOOLEAN
    /\ fAnalyzeTag = <<>> /\ fAnalyzeTagsAnd = FALSE /\ fAnalyzeState = <<>>
    /\ fAnalyzeAfter \in {Instant1, Instant2 + 1} /\ fAnalyzeBefore = Instant3
    /\ measurements = <<>>
    /\ fAnalyzeAllUsers = TRUE /\ args = <<>> /\ fTablesMeasUUID = <<>>
    /\ fAnalyzeAgents = <<>> /\ lookupFails = {} /\ nAnalyzed = 0 /\ queries = <<>>
    /\ \E names \in UNION {[1..len -> ByNameTables] : len \in 0..MaxCatalogTables} :
          /\ \A j, k \in 1..Len(names) : j # k => names[j] # names[k]
          /\ catalog = [k \in 1..Len(names) |->
                           MeasTable(names[k], TRUE, Instant2 + k, 5, 1500)]

SpecByName == InitByName /\ [][NextByName]_vars

\* The tables of the catalog that printTables retains.
Retained ==
    {j \in 1..Len(catalog) :
        /\ After(catalog[j].ModTime.t, fAnalyzeAfter)
        /\ Before(catalog[j].ModTime.t, fAnalyzeBefore)}

\* The positions of the headers in the output, and the header that
\* precedes the position n most closely.
Headers == {n \in 1..Len(out) : out[n].line = "measurement"}
HeaderBefore(n) ==
    LET before == {h \in Headers : h < n}
    IN  IF before = {} THEN <<>>
        ELSE out[CHOOSE h \in before : \A g \in before : g <= h].uuid

---------------------------------------------------------------------------
(* analyze: the accumulators taken together.                               *)

\* C28: at the end of every iteration of the loop of analyze, and when the
\* report is printed, totFound = totAgentFailure + totCanceled +
\* totFinished + totOngoing = len(durationCS) = len(durationSE) = the sum
\* of the counts of agentsPerMeas; with totFound > 0 both duration lists
\* hold a sample and printAnalysis indexes them without a panic.
C28_AccumulatorsConsistent ==
    cmd = "analyze" =>
        /\ pc # "panic"
        /\ pc \in {"loop", "done"} =>
              /\ totFound = totAgentFailure + totCanceled + totFinished + totOngoing
              /\ totFound = Len(durationCS)
              /\ totFound = Len(durationSE)
              /\ totFound = HistogramTotal(agentsPerMeas)
              /\ totFound = CountUpTo(Processed, AcceptedAllSet)
        /\ (pc = "done" /\ totFound > 0) =>
              Cardinality(DurationLines) = 2

\* analyze has counted two records, skipped none and printed the report on
\* the durations.
C28_Witness ==
    /\ cmd = "analyze" /\ pc = "done"
    /\ totFound = 2 /\ totFinished = 2
    /\ Len(durationCS) = 2 /\ Len(durationSE) = 2
    /\ HistogramTotal(agentsPerMeas) = 2
    /\ Cardinality(DurationLines) = 2


---------------------------------------------------------------------------
(* agentDetails: the channels and the join.                                *)

\* The program goes on as long as a step of it is possible: the scheduler
\* runs every goroutine that can run, and every remote call returns.
SpecFanoutFair == SpecFanout /\ WF_vars(NextFanout)

\* Each goroutine sends once, on one channel, and never finds it full; when
\* agentDetails returns, every output has been taken from its channel and
\* the outputs taken and the errors returned are one for each host.
ChannelsNeverBlock ==
    cmd = "agentDetails" =>
        /\ \A k \in 1..Len(gcpHostnames) : worker[k] = "send" => CanSend(k)
        /\ Len(allOutput) <= ChannelCapacity /\ Len(allErrors) <= ChannelCapacity
        /\ pc \in {"start", "spawn"} =>
              Len(allOutput) + Len(allErrors)
                 = Cardinality({k \in 1..Len(gcpHostnames) : worker[k] = "done"})
        /\ pc = "done" =>
              /\ allOutput = <<>>
              /\ Len(ranged) + Len(errors) = Len(gcpHostnames)
              /\ Len(ranged) = Cardinality(Succeeding)
              /\ errors = <<>> <=> Failing = {}

\* C29: the fan-out cannot deadlock on its channels. Each goroutine sends
\* once on one of the two channels, which have room for every host, so that
\* no send blocks; when every remote call returns the join completes, and
\* the outputs rendered and the errors returned are as many as the hosts,
\* the errors being none iff no host failed.
C29_NoChannelDeadlock ==
    /\ []ChannelsNeverBlock
    /\ <>(cmd = "agentDetails" /\ pc = "done")

\* agentDetails has returned one error after it took the outputs of the
\* two other hosts.
C29_Witness ==
    /\ cmd = "agentDetails" /\ pc = "done"
    /\ Len(gcpHostnames) = 3
    /\ Len(ranged) = 2 /\ Len(errors) = 1


---------------------------------------------------------------------------
(* meas.getMeasMdFile: the metadata of the measurements, page by page.     *)
(* The flags fix the rest of the query; only offset and limit change from  *)
(* one request to the next.                                                *)

limit == 200
OffsetEnd == 10000

\* batch.Next, a *string: nil, or a pointer to an empty or to another text.
NextNil == <<>>
NextEmpty == <<"">>
NextURL == <<"next">>

\* The end of the pages, tested for a nil cursor only.
LastPageNilOnly(batch) == batch.Next = NextNil

\* batch.Next == nil || *batch.Next == ""
LastPage(batch) == batch.Next = NextNil \/ batch.Next[1] = ""

\* What a request can come to: an error of Curl, of f.Write or of
\* json.Unmarshal, or a page with its cursor.
PageOutcomes ==
    {[err |-> e, Next |-> NextNil] : e \in {"curl", "write", "unmarshal"}}
       \cup {[err |-> "", Next |-> nx] : nx \in {NextNil, NextEmpty, NextURL}}

\* f.Name(), the name of the temporary file.
TempName == "/tmp/irisctl-meas-"

\* getMeasMdFile up to the loop: os.CreateTemp succeeds or fails.
MdCreate ==
    /\ cmd = "getMeasMdFile" /\ pc = "start"
    /\ \E created \in BOOLEAN :
          IF created
          THEN /\ pc' = "loop"
               /\ out' = out \o Verbose("getting metadata of measurements", <<>>)
                             \o <<[line |-> "saving in", name |-> TempName]>>
               /\ UNCHANGED mdReturn
          ELSE /\ pc' = "done"
               /\ out' = out \o Verbose("getting metadata of measurements", <<>>)
               /\ mdReturn' = [name |-> "", err |-> "create"]
    /\ UNCHANGED <<cmd, flags, measurements, i, totals, accums, tagMaps>>
    /\ UNCHANGED <<offset, fetched, written, exceptMd>>

\* One iteration of the loop: the request, the write, the decoding and the
\* test of the cursor; a return runs the deferred fmt.Println().
MdPage ==
    /\ cmd = "getMeasMdFile" /\ pc = "loop" /\ offset < OffsetEnd
    /\ \E o \in PageOutcomes :
          LET asked == Verbose("getting from offset", <<offset, offset + limit>>)
              newline == <<[line |-> "newline"]>>
          IN  /\ fetched' = Append(fetched, [offset |-> offset, limit |-> limit,
                                             err |-> o.err, Next |-> o.Next])
              /\ written' = IF o.err \in {"curl", "write"} THEN written
                            ELSE Append(written, offset)
              /\ IF o.err # ""
                 THEN /\ mdReturn' = [name |-> TempName, err |-> o.err]
                      /\ pc' = "done" /\ out' = out \o asked \o newline
                      /\ UNCHANGED offset
                 ELSE IF LastPage(o)
                 THEN /\ mdReturn' = [name |-> TempName, err |-> ""]
                      /\ pc' = "done" /\ out' = out \o asked \o newline
                      /\ UNCHANGED offset
                 ELSE /\ offset' = offset + limit
                      /\ out' = out \o asked
                      /\ UNCHANGED <<pc, mdReturn>>
    /\ UNCHANGED <<cmd, flags, measurements, i, totals, accums, tagMaps>>
    /\ UNCHANGED exceptMd

\* The loop ends on its condition.
MdReturn ==
    /\ cmd = "getMeasMdFile" /\ pc = "loop" /\ offset >= OffsetEnd
    /\ mdReturn' = [name |-> TempName, err |-> ""]
    /\ pc' = "done" /\ out' = Append(out, [line |-> "newline"])
    /\ UNCHANGED <<cmd, flags, measurements, i, totals, accums, tagMaps>>
    /\ UNCHANGED <<offset, fetched, written, exceptMd>>

NextMd == MdCreate \/ MdPage \/ MdReturn

InitMd ==
    /\ Start("getMeasMdFile")
    /\ IdleExceptMd
    /\ verbose \in BOOLEAN
    /\ fAnalyzeTag = <<>> /\ fAnalyzeTagsAnd = FALSE /\ fAnalyzeState = <<>>
    /\ fAnalyzeAfter = Instant1 /\ fAnalyzeBefore = Instant3
    /\ measurements = <<>>
    /\ offset = 0 /\ fetched = <<>> /\ written = <<>> /\ mdReturn = <<>>

\* Every call of the function returns, and the function goes on as long as
\* it has a step to take.
SpecMdFile == InitMd /\ [][NextMd]_vars /\ WF_vars(NextMd)

\* The request ends the fetching: it failed, or its page has no cursor.
Stops(request) ==
    request.err # "" \/ request.Next = NextNil \/ request.Next = NextEmpty

\* The pages are requested at the offsets 0, 200, 400, ... below 10000; no
\* request follows one that stops; the file holds, in order, every page
\* fetched; an error is returned with the name of the file.
PagingInOrder ==
    cmd = "getMeasMdFile" =>
        /\ \A k \in 1..Len(fetched) :
              /\ fetched[k].offset = limit * (k - 1)
              /\ fetched[k].offset < OffsetEnd
              /\ fetched[k].limit = limit
        /\ Len(fetched) * limit <= OffsetEnd
        /\ \A k \in 1..(Len(fetched) - 1) : ~Stops(fetched[k])
        /\ (fetched # <<>> /\ Stops(fetched[Len(fetched)])) => pc = "done"
        /\ written = [k \in 1..Len(written) |-> fetched[k].offset]
        /\ Len(written) = Cardinality({k \in 1..Len(fetched) :
                                          fetched[k].err \notin {"curl", "write"}})
        /\ (pc = "done" /\ fetched # <<>>) =>
              /\ mdReturn.name = TempName
              /\ mdReturn.err = fetched[Len(fetched)].err
              /\ mdReturn.err = "" =>
                    \/ Stops(fetched[Len(fetched)])
                    \/ Len(fetched) * limit = OffsetEnd

\* C30: getMeasMdFile always terminates. It requests the pages at the
\* offsets 0, 200, 400, ... in increasing order, at most 50 of them, stops
\* after the first page whose next cursor is absent or empty, appends every
\* page fetched to the file before the next request, and on an error of the
\* fetch, of the write or of the decoding it stops at once and returns the
\* error with the name of the file.
C30_PagingTerminates ==
    /\ []PagingInOrder
    /\ <>(cmd = "getMeasMdFile" /\ pc = "done")

\* The fiftieth page still had a cursor: the loop has ended on its bound.
C30_Witness ==
    /\ cmd = "getMeasMdFile" /\ pc = "done"
    /\ Len(fetched) = 50 /\ Len(written) = 50
    /\ fetched[50].offset = 9800 /\ fetched[50].Next = NextURL
    /\ mdReturn = [name |-> TempName, err |-> ""]

====
